---------------------------- MODULE Spec2Model ----------------------------
(***************************************************************************)
(* Model of src/index.tsx: the buried-pipe thermal calculator.             *)
(*                                                                         *)
(*   - the pipe / soil-layer form rows and handleCalculate,                *)
(*   - calculateTemperatures (resistance solver + affected-pipe loop),     *)
(*   - calculateTemperatureAtPoint (field evaluator),                      *)
(*   - marchingCubes.run / vertexInterp,                                   *)
(*   - ThreeDManager.buildScene (isosurface loop).                         *)
(*                                                                         *)
(* JavaScript numbers are modelled as records [k, v]:                      *)
(*   k = "fin": the finite value v / SCALE (fixed point, rounded to the    *)
(*              nearest unit), k = "nan": NaN, k = "inf": +Infinity when   *)
(*              v = 1 and -Infinity when v = -1.                           *)
(* The operators F... follow IEEE-754 for the non-finite values.  Zero has *)
(* no sign in this model: a division by zero takes the sign of the         *)
(* numerator.                                                              *)
(***************************************************************************)
EXTENDS Integers, Sequences, FiniteSets, TLC

\* One unit of a finite number is 1 / SCALE.
SCALE == 10 ^ 4

(***************************************************************************)
(* Integer helpers                                                         *)
(***************************************************************************)
Abs(n) == IF n < 0 THEN -n ELSE n

Sgn(n) == IF n > 0 THEN 1 ELSE IF n < 0 THEN -1 ELSE 0

\* a / b for a >= 0, b > 0, rounded to the nearest integer.
RoundDiv(a, b) == (a + (b \div 2)) \div b

\* round(a * b / SCALE) for a, b >= 0; the product is split when a * b would
\* not fit in 32 bits.
NatMulFix(a, b) ==
    IF a < 46340 /\ b < 46340 THEN RoundDiv(a * b, SCALE)
    ELSE LET qa == a \div SCALE
             ra == a % SCALE
             qb == b \div SCALE
             rb == b % SCALE
         IN  qa * qb * SCALE + qa * rb + ra * qb + RoundDiv(ra * rb, SCALE)

\* The first n digits in the given base of r / b (0 <= r < b), as an integer,
\* last digit rounded.
RECURSIVE FracDigits(_, _, _, _)
FracDigits(r, b, n, base) ==
    IF n = 0 THEN (IF 2 * r >= b THEN 1 ELSE 0)
    ELSE ((r * base) \div b) * (base ^ (n - 1)) + FracDigits((r * base) % b, b, n - 1, base)

\* round(a * SCALE / b) for a >= 0, b > 0 without an intermediate a * SCALE:
\* long division, in the largest base for which r * base fits in 32 bits.
NatDivFix(a, b) ==
    (a \div b) * SCALE +
    (IF b <= 200000 THEN FracDigits(a % b, b, 1, 10000)
     ELSE IF b <= 20000000 THEN FracDigits(a % b, b, 2, 100)
     ELSE FracDigits(a % b, b, 4, 10))

\* floor(sqrt(n)) for n >= 0, by bisection on [lo, hi).
RECURSIVE ISqrtIn(_, _, _)
ISqrtIn(n, lo, hi) ==
    IF hi - lo <= 1 THEN lo
    ELSE LET mid == (lo + hi) \div 2
         IN  IF mid * mid <= n THEN ISqrtIn(n, mid, hi) ELSE ISqrtIn(n, lo, mid)

ISqrt(n) == ISqrtIn(n, 0, 46341)

\* ln 2 and pi in units of 1 / SCALE.
LN2 == 6931

PI == 31416

\* The terms 2 * y^k / k of the atanh series from k on, for odd k up to 9;
\* yk is y^k and y2 is y^2.
RECURSIVE AtanhTerms(_, _, _)
AtanhTerms(yk, y2, k) ==
    IF k > 9 THEN 0
    ELSE RoundDiv(2 * yk, k) + AtanhTerms(NatMulFix(yk, y2), y2, k + 2)

\* 2 * atanh(y) = 2y + 2y^3/3 + 2y^5/5 + 2y^7/7 + 2y^9/9
TwiceAtanh(y) == AtanhTerms(y, NatMulFix(y, y), 1)

\* ln(m / SCALE) for SCALE <= m < 2 * SCALE: 2 * atanh((m - 1) / (m + 1)).
LnMantissa(m) == TwiceAtanh(NatDivFix(m - SCALE, m + SCALE))

\* ln(x / SCALE) * SCALE for an integer x > 0.
RECURSIVE LnFix(_)
LnFix(x) ==
    IF x >= 2 * SCALE THEN LN2 + LnFix(RoundDiv(x, 2))
    ELSE IF x < SCALE THEN LnFix(2 * x) - LN2
    ELSE LnMantissa(x)

(***************************************************************************)
(* JavaScript numbers                                                      *)
(***************************************************************************)
Fin(v) == [k |-> "fin", v |-> v]

\* A finite number too large for units of 1 / SCALE, in whole units (to the
\* nearest one): every finite number of magnitude BigMin or more.
Big(w) == [k |-> "big", v |-> w]

BigMin == 20 * SCALE

\* The finite number of v units of 1 / SCALE.
FinOf(v) == IF Abs(v) < BigMin * SCALE THEN Fin(v) ELSE Big(Sgn(v) * RoundDiv(Abs(v), SCALE))

\* The finite number of w whole units.
FromUnits(w) == IF Abs(w) < BigMin THEN Fin(w * SCALE) ELSE Big(w)

\* A finite number to the nearest whole unit.
Whole(a) == IF a.k = "big" THEN a.v ELSE Sgn(a.v) * RoundDiv(Abs(a.v), SCALE)

NaN == [k |-> "nan", v |-> 0]

PInf == [k |-> "inf", v |-> 1]

NInf == [k |-> "inf", v |-> -1]

Inf(s) == [k |-> "inf", v |-> s]

\* A whole number n as a JavaScript number.
Num(n) == Fin(n * SCALE)

Zero == Fin(0)

\* Number.isFinite
IsFinite(a) == a.k \in {"fin", "big"}

IsNaN(a) == a.k = "nan"

\* The sign of a non-NaN number: -1, 0 or 1.
SignOf(a) == Sgn(a.v)

FNeg(a) == IF a.k = "nan" THEN NaN ELSE [k |-> a.k, v |-> -a.v]

\* a + b
FAdd(a, b) ==
    IF a.k = "nan" \/ b.k = "nan" THEN NaN
    ELSE IF a.k = "inf" /\ b.k = "inf" THEN (IF a.v = b.v THEN a ELSE NaN)
    ELSE IF a.k = "inf" THEN a
    ELSE IF b.k = "inf" THEN b
    ELSE IF a.k = "fin" /\ b.k = "fin" /\ Abs(a.v) < 10 ^ 9 /\ Abs(b.v) < 10 ^ 9
         THEN FinOf(a.v + b.v)
    ELSE FromUnits(Whole(a) + Whole(b))

\* a - b
FSub(a, b) == FAdd(a, FNeg(b))

\* round(a * b / SCALE ^ 2) for a, b >= 0, to within two units.
NatMulWhole(a, b) ==
    LET qa == a \div SCALE
        ra == a % SCALE
        qb == b \div SCALE
        rb == b % SCALE
    IN  qa * qb + ((qa * rb) \div SCALE) + ((ra * qb) \div SCALE)

\* a * b for finite a and b, sign the sign of the product.
FinMul(a, b, sign) ==
    IF a.k = "fin" /\ b.k = "fin"
    THEN IF (Abs(a.v) \div SCALE) + 1 <= (BigMin - 1) \div ((Abs(b.v) \div SCALE) + 1)
         THEN Fin(sign * NatMulFix(Abs(a.v), Abs(b.v)))
         ELSE FromUnits(sign * NatMulWhole(Abs(a.v), Abs(b.v)))
    ELSE IF a.k = "big" /\ b.k = "big" THEN Big(sign * Abs(a.v) * Abs(b.v))
    ELSE IF a.k = "big" THEN FromUnits(sign * NatMulFix(Abs(a.v), Abs(b.v)))
    ELSE FromUnits(sign * NatMulFix(Abs(b.v), Abs(a.v)))

\* a * b
FMul(a, b) ==
    IF a.k = "nan" \/ b.k = "nan" THEN NaN
    ELSE IF a.k = "inf" \/ b.k = "inf"
         THEN (IF SignOf(a) * SignOf(b) = 0 THEN NaN ELSE Inf(SignOf(a) * SignOf(b)))
    ELSE FinMul(a, b, SignOf(a) * SignOf(b))

\* a / b for finite a and b # 0, sign the sign of the quotient.
FinDiv(a, b, sign) ==
    IF a.k = "fin" /\ b.k = "fin"
    THEN IF Abs(a.v) \div Abs(b.v) < BigMin
         THEN FinOf(sign * NatDivFix(Abs(a.v), Abs(b.v)))
         ELSE Big(sign * RoundDiv(Abs(a.v), Abs(b.v)))
    ELSE IF a.k = "big" /\ b.k = "big" THEN FinOf(sign * NatDivFix(Abs(a.v), Abs(b.v)))
    ELSE IF a.k = "big" THEN FromUnits(sign * NatDivFix(Abs(a.v), Abs(b.v)))
    ELSE Fin(sign * RoundDiv(Abs(a.v), Abs(b.v)))

\* a / b
FDiv(a, b) ==
    IF a.k = "nan" \/ b.k = "nan" THEN NaN
    ELSE IF a.k = "inf" /\ b.k = "inf" THEN NaN
    ELSE IF a.k = "inf" THEN Inf(IF SignOf(b) < 0 THEN -a.v ELSE a.v)
    ELSE IF b.k = "inf" THEN Zero
    ELSE IF b.v = 0 THEN (IF a.v = 0 THEN NaN ELSE Inf(SignOf(a)))
    ELSE FinDiv(a, b, SignOf(a) * SignOf(b))

\* a < b (false when either is NaN)
FLt(a, b) ==
    /\ a.k # "nan"
    /\ b.k # "nan"
    /\ IF a.k = "inf" THEN a.v = -1 /\ b # a
       ELSE IF b.k = "inf" THEN b.v = 1
       ELSE IF a.k = b.k THEN a.v < b.v
       ELSE IF b.k = "big" THEN b.v > 0
       ELSE a.v < 0

FGt(a, b) == FLt(b, a)

\* a <= b (false when either is NaN)
FLe(a, b) == a.k # "nan" /\ b.k # "nan" /\ ~FLt(b, a)

FGe(a, b) == FLe(b, a)

\* a === b on numbers (NaN is equal to nothing)
FEq(a, b) == a.k # "nan" /\ b.k # "nan" /\ a = b

\* Math.abs
FAbs(a) == IF a.k = "nan" THEN NaN ELSE [k |-> a.k, v |-> Abs(a.v)]

\* Math.max of two numbers
FMax(a, b) ==
    IF a.k = "nan" \/ b.k = "nan" THEN NaN
    ELSE IF FLt(a, b) THEN b ELSE a

\* Math.log
FLog(a) ==
    IF a.k = "nan" THEN NaN
    ELSE IF a.k = "inf" THEN (IF a.v = 1 THEN PInf ELSE NaN)
    ELSE IF a.v < 0 THEN NaN
    ELSE IF a.v = 0 THEN NInf
    ELSE IF a.k = "big" THEN Fin(LnFix(a.v) + LnFix(SCALE * SCALE))
    ELSE Fin(LnFix(a.v))

\* sqrt(a * a + b * b) for a, b >= 0; the operands are taken in coarser units
\* when the sum of the squares would not fit in 32 bits.
HypotNat(a, b) ==
    IF a < 32768 /\ b < 32768 THEN ISqrt(a * a + b * b)
    ELSE IF a < 46341 /\ b < 46341 /\ a * a <= 2147483647 - b * b
         THEN ISqrt(a * a + b * b)
    ELSE LET unit == ((IF a > b THEN a ELSE b) \div 32768) + 1
         IN  unit * ISqrt((a \div unit) * (a \div unit) + (b \div unit) * (b \div unit))

\* Math.hypot of two numbers
FHypot(a, b) ==
    IF a.k = "inf" \/ b.k = "inf" THEN PInf
    ELSE IF a.k = "nan" \/ b.k = "nan" THEN NaN
    ELSE IF a.k = "fin" /\ b.k = "fin" /\ Abs(a.v) < 10 ^ 9 /\ Abs(b.v) < 10 ^ 9
         THEN FinOf(HypotNat(Abs(a.v), Abs(b.v)))
    ELSE FromUnits(HypotNat(Abs(Whole(a)), Abs(Whole(b))))

\* The JavaScript idiom  x || 0  on a number: NaN and 0 give 0.
OrZero(a) == IF a.k = "nan" THEN Zero ELSE a

\* The JavaScript idiom  x || d  on a number.
OrElse(a, d) == IF a.k = "nan" \/ a = Zero THEN d ELSE a

\* Truthiness of a number (if (x) ...).
Truthy(a) == ~(a.k = "nan" \/ a = Zero)


\* a < e for a positive e smaller than one unit (1e-6 and 1e-9 in the source).
LtTiny(a) == a.k # "nan" /\ ~FGt(a, Zero)

\* null
Null == [k |-> "null"]

\* An absent value (undefined).
Undefined == [k |-> "undef", v |-> 0]

(***************************************************************************)
(* Sequence helpers                                                        *)
(***************************************************************************)
\* Array.prototype.filter with a set of kept elements' indices.
RECURSIVE FilterIdx(_, _, _)
FilterIdx(s, keep, i) ==
    IF i > Len(s) THEN << >>
    ELSE (IF i \in keep THEN <<s[i]>> ELSE << >>) \o FilterIdx(s, keep, i + 1)

\* Sum of a sequence of numbers, left to right from 0 (total += term).
RECURSIVE SumFrom(_, _, _)
SumFrom(s, i, acc) ==
    IF i > Len(s) THEN acc ELSE SumFrom(s, i + 1, FAdd(acc, s[i]))

\* The index of the first element of s from index i on that passes Test, 0 if none.
RECURSIVE FindFrom(_, _, _)
FindFrom(s, Test(_), i) ==
    IF i > Len(s) THEN 0
    ELSE IF Test(s[i]) THEN i
    ELSE FindFrom(s, Test, i + 1)

\* Array.prototype.find / for ... of with return: the index of the first match, 0 if none.
FindIdx(s, Test(_)) == FindFrom(s, Test, 1)

(***************************************************************************)
(* Unit conversion (CONVERSIONS)                                           *)
(***************************************************************************)
\* 0.3048 and 0.0254 in units of 1 / SCALE.
FT_TO_M == 3048

IN_TO_M == 254

ftToM(ft) == FMul(ft, Fin(FT_TO_M))

inToM(inch) == FMul(inch, Fin(IN_TO_M))

FtoC(f) == FDiv(FMul(FSub(f, Num(32)), Num(5)), Num(9))

(***************************************************************************)
(* Form validation and data gathering                                      *)
(*                                                                         *)
(* A pipe row holds what parseFloat gives for the text of each input (a    *)
(* finite number, or NaN for an empty or unparsable field).                *)
(***************************************************************************)
\* validatePipeRow with  z_m <= totalRadius_m  as the rejection test.
validatePipeRowStrict(row) ==
    LET z   == OrZero(row.z)
        od  == OrZero(row.od)
        ins == OrZero(row.ins)
        bed == OrZero(row.bed)
        z_m == ftToM(z)
        totalRadius_m == inToM(FAdd(FAdd(FDiv(od, Num(2)), ins), bed))
    IN  ~FLe(z_m, totalRadius_m)

validatePipeRow(row) ==
    LET z   == OrZero(row.z)
        od  == OrZero(row.od)
        ins == OrZero(row.ins)
        bed == OrZero(row.bed)
        z_m == ftToM(z)
        totalRadius_m == inToM(FAdd(FAdd(FDiv(od, Num(2)), ins), bed))
    IN  ~FLt(z_m, totalRadius_m)

\* One element of getPipes(): the Pipe built from a row.
PipeOfRow(row) ==
    [ id            |-> row.id,
      role          |-> row.role,
      orientation   |-> row.orientation,
      temp          |-> IF row.role = "heat_source"
                        THEN FtoC(OrZero(row.temp)) ELSE Undefined,
      x             |-> ftToM(OrZero(row.x)),
      y             |-> ftToM(OrZero(row.y)),
      z             |-> ftToM(OrZero(row.z)),
      od            |-> inToM(OrZero(row.od)),
      thickness     |-> inToM(OrZero(row.thickness)),
      ins_thickness |-> inToM(OrZero(row.ins)),
      bed_thickness |-> inToM(OrZero(row.bed)),
      k_pipe        |-> OrZero(row.k_pipe),
      k_ins         |-> OrZero(row.k_ins),
      k_bedding     |-> OrZero(row.k_bed) ]

getPipes(rows) == [i \in 1..Len(rows) |-> PipeOfRow(rows[i])]

\* getSoilLayers with  currentDepth += thickness  outside the test of line 586:
\* a skipped row moves the depth too.
RECURSIVE SoilLayersFromAdvancing(_, _, _)
SoilLayersFromAdvancing(rows, i, currentDepth) ==
    IF i > Len(rows) THEN << >>
    ELSE LET thickness == ftToM(OrZero(rows[i].thickness))
             k         == OrZero(rows[i].k)
         IN  (IF FGt(thickness, Zero)
              THEN << [ k            |-> k,
                        thickness    |-> thickness,
                        depth_top    |-> currentDepth,
                        depth_bottom |-> FAdd(currentDepth, thickness) ] >>
              ELSE << >>)
             \o SoilLayersFromAdvancing(rows, i + 1, FAdd(currentDepth, thickness))

\* getSoilLayers: rows with a positive thickness, stacked from depth 0.
RECURSIVE SoilLayersFrom(_, _, _)
SoilLayersFrom(rows, i, currentDepth) ==
    IF i > Len(rows) THEN << >>
    ELSE LET thickness == ftToM(OrZero(rows[i].thickness))
             k         == OrZero(rows[i].k)
         IN  IF FGt(thickness, Zero)
             THEN << [ k            |-> k,
                       thickness    |-> thickness,
                       depth_top    |-> currentDepth,
                       depth_bottom |-> FAdd(currentDepth, thickness) ] >>
                  \o SoilLayersFrom(rows, i + 1, FAdd(currentDepth, thickness))
             ELSE SoilLayersFrom(rows, i + 1, currentDepth)

getSoilLayers(rows) == SoilLayersFrom(rows, 1, Zero)

(***************************************************************************)
(* Soil model                                                              *)
(***************************************************************************)
\* The default conductivity 1.5 W/m-K, in units of 1 / SCALE.
DEFAULT_K == 15000

\* soilLayers[0]?.k || 1.5
FirstLayerKOrDefault(soilLayers) ==
    IF Len(soilLayers) > 0 THEN OrElse(soilLayers[1].k, Fin(DEFAULT_K))
    ELSE Fin(DEFAULT_K)

\* getSoilKAtPoint with  z <= layer.depth_bottom  as the upper test: a depth on a
\* boundary belongs to the layer above it.
getSoilKAtPointClosed(z, soilLayers) ==
    LET Hit(l) == FGe(z, l.depth_top) /\ FLe(z, l.depth_bottom)
        i == FindIdx(soilLayers, Hit)
    IN  IF i > 0 THEN soilLayers[i].k
        ELSE IF Len(soilLayers) > 0 THEN soilLayers[Len(soilLayers)].k
        ELSE Fin(DEFAULT_K)

getSoilKAtPoint(z, soilLayers) ==
    LET Hit(l) == FGe(z, l.depth_top) /\ FLt(z, l.depth_bottom)
        i == FindIdx(soilLayers, Hit)
    IN  IF i > 0 THEN soilLayers[i].k
        ELSE IF Len(soilLayers) > 0 THEN soilLayers[Len(soilLayers)].k
        ELSE Fin(DEFAULT_K)

\* getEffectiveSoilKForPipe for a pipe of outer radius r_outer centred at depth z.
EffectiveSoilK(pipeCenterZ, r_outer, soilLayers) ==
    LET involved == { i \in 1..Len(soilLayers) :
                        /\ FGt(FAdd(pipeCenterZ, r_outer), soilLayers[i].depth_top)
                        /\ FLt(FSub(pipeCenterZ, r_outer), soilLayers[i].depth_bottom) }
        ks       == FilterIdx([i \in 1..Len(soilLayers) |-> soilLayers[i].k], involved, 1)
        totalK   == SumFrom(ks, 1, Zero)
    IN  IF Len(ks) > 0 THEN FDiv(totalK, Num(Len(ks)))
        ELSE FirstLayerKOrDefault(soilLayers)

getEffectiveSoilKForPipe(pipe, soilLayers) ==
    EffectiveSoilK(pipe.z,
                   FAdd(FAdd(FDiv(pipe.od, Num(2)), pipe.ins_thickness), pipe.bed_thickness),
                   soilLayers)

\* The number of segments of getEffectiveKForPath.
PATH_STEPS == 100

\* Sum of f[lo] .. f[hi] (lo <= hi).  The source adds the terms left to right;
\* the terms here are finite and non-negative, so the order does not change the sum.
RECURSIVE SumRange(_, _, _)
SumRange(f, lo, hi) ==
    IF lo = hi THEN f[lo]
    ELSE LET mid == (lo + hi) \div 2
         IN  FAdd(SumRange(f, lo, mid), SumRange(f, mid + 1, hi))

\* What segment i of the loop of getEffectiveKForPath adds to totalResistance:
\* t = (i + 0.5) / steps, z = z1 + t * (z2 - z1), (length / steps) / k when k > 0.
\* dz is z2 - z1 and perStep is length / steps, which do not change in the loop.
PathSegmentResistance(z1, dz, perStep, soilLayers, i) ==
    LET t == Fin(((2 * i + 1) * SCALE) \div (2 * PATH_STEPS))
        z == FAdd(z1, FMul(t, dz))
        k == getSoilKAtPoint(z, soilLayers)
    IN  IF FGt(k, Zero) THEN FDiv(perStep, k) ELSE Zero

\* The loop of getEffectiveKForPath: totalResistance after all segments.
PathResistance(z1, z2, length, soilLayers) ==
    LET dz      == FSub(z2, z1)
        perStep == FDiv(length, Num(PATH_STEPS))
    IN  SumRange([i \in 0..(PATH_STEPS - 1) |->
                     PathSegmentResistance(z1, dz, perStep, soilLayers, i)],
                 0, PATH_STEPS - 1)

\* The return of getEffectiveKForPath after the loop (line 684).
PathReturn(length, totalResistance, soilLayers) ==
    IF FEq(totalResistance, Zero) THEN FirstLayerKOrDefault(soilLayers)
    ELSE FDiv(length, totalResistance)

\* getEffectiveKForPath from line 670 on, length being Math.hypot(dx, dz).
PathOfLength(z1, z2, length, soilLayers) ==
    IF LtTiny(length) THEN FirstLayerKOrDefault(soilLayers)
    ELSE PathReturn(length, PathResistance(z1, z2, length, soilLayers), soilLayers)

getEffectiveKForPath(p1, p2, soilLayers) ==
    PathOfLength(p1.z, p2.z, FHypot(FSub(p2.x, p1.x), FSub(p2.z, p1.z)), soilLayers)

(***************************************************************************)
(* calculateTemperatures                                                   *)
(***************************************************************************)
\* 2 * Math.PI * k
TwoPiK(k) == FMul(FMul(Num(2), Fin(PI)), k)

\* The heat flux of line 709 without the R_total > 0 test.
HeatFluxUnguarded(T_pipe, T_soil_C, R_total) == FDiv(FSub(T_pipe, T_soil_C), R_total)

\* Q = (R_total > 0) ? (T_pipe - T_soil_C) / R_total : 0
HeatFlux(T_pipe, T_soil_C, R_total) ==
    IF FGt(R_total, Zero) THEN FDiv(FSub(T_pipe, T_soil_C), R_total) ELSE Zero

\* Math.log(r_outer / r_inner) / (2 * Math.PI * k)
CylinderResistance(r_outer, r_inner, k) == FDiv(FLog(FDiv(r_outer, r_inner)), TwoPiK(k))

\* R_soil with the depth z in place of the distance 2 * z to the image.
SoilResistanceSingleDepth(z, r_bed_outer, k_eff_soil) ==
    IF FGt(k_eff_soil, Zero)
    THEN CylinderResistance(z, r_bed_outer, k_eff_soil)
    ELSE Zero

\* R_soil = (k_eff_soil > 0) ? Math.log((2 * z) / r_bed_outer) / (2 pi k_eff_soil) : 0
SoilResistance(z, r_bed_outer, k_eff_soil) ==
    IF FGt(k_eff_soil, Zero)
    THEN CylinderResistance(FMul(Num(2), z), r_bed_outer, k_eff_soil)
    ELSE Zero

\* The record of lines 711-712 from the resistances, R_total and Q.
SourceRecord(pipeId, T_pipe, T_soil_C, R_pipe, R_ins, R_bed, R_soil, R_total) ==
    [ pipeId |-> pipeId, R_pipe |-> R_pipe, R_ins |-> R_ins, R_bed |-> R_bed,
      R_soil |-> R_soil, R_total |-> R_total, Q |-> HeatFlux(T_pipe, T_soil_C, R_total) ]

\* Lines 708-712: R_total = R_pipe + R_ins + R_bed + R_soil, Q and the record.
SourceTotals(pipeId, T_pipe, T_soil_C, R_pipe, R_ins, R_bed, R_soil) ==
    SourceRecord(pipeId, T_pipe, T_soil_C, R_pipe, R_ins, R_bed, R_soil,
                 FAdd(FAdd(FAdd(R_pipe, R_ins), R_bed), R_soil))

\* One element of sourceCalcs: the resistances and heat flux of a heat source.
SourceCalculation(pipe, soilLayers, T_soil_C) ==
    LET r_pipe_outer == FDiv(pipe.od, Num(2))
        r_pipe_inner == FSub(r_pipe_outer, pipe.thickness)
        r_ins_outer  == FAdd(r_pipe_outer, pipe.ins_thickness)
        r_bed_outer  == FAdd(r_ins_outer, pipe.bed_thickness)
    IN  SourceTotals(pipe.id, pipe.temp, T_soil_C,
            \* R_pipe
            IF FGt(pipe.k_pipe, Zero) /\ FGt(r_pipe_inner, Zero)
            THEN CylinderResistance(r_pipe_outer, r_pipe_inner, pipe.k_pipe) ELSE Zero,
            \* R_ins
            IF FGt(pipe.k_ins, Zero)
            THEN CylinderResistance(r_ins_outer, r_pipe_outer, pipe.k_ins) ELSE Zero,
            \* R_bed
            IF FGt(pipe.k_bedding, Zero)
            THEN CylinderResistance(r_bed_outer, r_ins_outer, pipe.k_bedding) ELSE Zero,
            \* R_soil
            SoilResistance(pipe.z, r_bed_outer, getEffectiveSoilKForPipe(pipe, soilLayers)))

\* tempRise of line 765 without the k_eff_path > 0 test.
TempRiseNoConductivityTest(Q, k_eff_path, d_real, d_image) ==
    IF FGt(d_image, d_real)
    THEN FMul(FDiv(Q, TwoPiK(k_eff_path)), FLog(FDiv(d_image, d_real)))
    ELSE Zero

\* tempRise = (k_eff_path > 0 && d_image > d_real) ? (Q / (2 pi k)) * ln(d_image / d_real) : 0
TempRise(Q, k_eff_path, d_real, d_image) ==
    IF FGt(k_eff_path, Zero) /\ FGt(d_image, d_real)
    THEN FMul(FDiv(Q, TwoPiK(k_eff_path)), FLog(FDiv(d_image, d_real)))
    ELSE Zero

\* Lines 758-768: tempRise and the InteractionCalculation pushed.
InteractionRecord(sourceId, Q, k_eff_path, d_real, d_image) ==
    [ sourceId |-> sourceId, k_eff_path |-> k_eff_path, d_real |-> d_real,
      d_image |-> d_image, tempRise |-> TempRise(Q, k_eff_path, d_real, d_image) ]

\* The InteractionCalculation with the first branch of line 732 taken for every
\* pair of pipes, whatever their orientations.
InteractionCalculationAlwaysPlanar(source, affectedPipe, soilLayers) ==
    LET r_source_outer == FAdd(FAdd(FDiv(source.od, Num(2)), source.ins_thickness),
                               source.bed_thickness)
        z_s == source.z
        z_a == affectedPipe.z
        horiz_s == IF source.orientation = "parallel" THEN source.x ELSE source.y
        horiz_a == IF affectedPipe.orientation = "parallel"
                   THEN affectedPipe.x ELSE affectedPipe.y
        d_horizontal == FSub(horiz_s, horiz_a)
    IN  InteractionRecord(source.id, source.Q,
            getEffectiveKForPath([x |-> horiz_s, z |-> z_s],
                                 [x |-> horiz_a, z |-> z_a], soilLayers),
            FMax(FHypot(d_horizontal, FSub(z_s, z_a)), r_source_outer),
            FHypot(d_horizontal, FAdd(z_s, z_a)))

\* The InteractionCalculation of one source (with its Q) on one affected pipe.
InteractionCalculation(source, affectedPipe, soilLayers) ==
    LET r_source_outer == FAdd(FAdd(FDiv(source.od, Num(2)), source.ins_thickness),
                               source.bed_thickness)
        z_s == source.z
        z_a == affectedPipe.z
        same == source.orientation = affectedPipe.orientation
        horiz_s == IF source.orientation = "parallel" THEN source.x ELSE source.y
        horiz_a == IF affectedPipe.orientation = "parallel"
                   THEN affectedPipe.x ELSE affectedPipe.y
        d_horizontal == FSub(horiz_s, horiz_a)
        d_raw   == IF same THEN FHypot(d_horizontal, FSub(z_s, z_a))
                   ELSE FAbs(FSub(z_s, z_a))
        d_image == IF same THEN FHypot(d_horizontal, FAdd(z_s, z_a))
                   ELSE FAdd(z_s, z_a)
    IN  InteractionRecord(source.id, source.Q,
            \* k_eff_path
            IF same
            THEN getEffectiveKForPath([x |-> horiz_s, z |-> z_s],
                                      [x |-> horiz_a, z |-> z_a], soilLayers)
            ELSE getSoilKAtPoint(z_a, soilLayers),
            \* d_real = Math.max(d_real, r_source_outer)
            FMax(d_raw, r_source_outer),
            d_image)

\* Lines 771-772: finalTemp and the AffectedPipeCalculation returned.
AffectedRecord(pipeId, T_soil_C, interactionCalcs, totalTempRise) ==
    [ pipeId |-> pipeId, interactions |-> interactionCalcs,
      totalTempRise |-> totalTempRise, finalTemp |-> FAdd(T_soil_C, totalTempRise) ]

\* totalTempRise with  totalTempRise = tempRise  in place of
\* totalTempRise += tempRise : the last source's rise alone.
AffectedTotalsOverwriting(pipeId, T_soil_C, interactionCalcs) ==
    AffectedRecord(pipeId, T_soil_C, interactionCalcs,
                   IF Len(interactionCalcs) = 0 THEN Zero
                   ELSE interactionCalcs[Len(interactionCalcs)].tempRise)

\* totalTempRise (let totalTempRise = 0; totalTempRise += tempRise per source)
\* and the record of one affected pipe.
AffectedTotals(pipeId, T_soil_C, interactionCalcs) ==
    AffectedRecord(pipeId, T_soil_C, interactionCalcs,
                   SumFrom([i \in 1..Len(interactionCalcs) |-> interactionCalcs[i].tempRise],
                           1, Zero))

\* One element of affectedPipeCalcs.
AffectedPipeCalculation(affectedPipe, sourcesWithQ, soilLayers, T_soil_C) ==
    LET others == FilterIdx(sourcesWithQ,
                      { i \in 1..Len(sourcesWithQ) : sourcesWithQ[i].id # affectedPipe.id }, 1)
    IN  AffectedTotals(affectedPipe.id, T_soil_C,
                       [i \in 1..Len(others) |->
                           InteractionCalculation(others[i], affectedPipe, soilLayers)])

\* createSceneData: the part of SceneData the evaluators read.
createSceneData(pipes, soilLayers, T_soil) ==
    [ T_soil |-> T_soil,
      pipes  |-> [i \in 1..Len(pipes) |->
                    [ id |-> pipes[i].id,
                      x |-> pipes[i].x, y |-> pipes[i].y, z |-> pipes[i].z,
                      orientation |-> pipes[i].orientation,
                      r_pipe |-> FDiv(pipes[i].od, Num(2)),
                      r_ins  |-> FAdd(FDiv(pipes[i].od, Num(2)), pipes[i].ins_thickness),
                      r_bed  |-> FAdd(FAdd(FDiv(pipes[i].od, Num(2)), pipes[i].ins_thickness),
                                      pipes[i].bed_thickness),
                      temp |-> pipes[i].temp,
                      isSource |-> pipes[i].role = "heat_source",
                      Q |-> pipes[i].Q ]],
      layers |-> soilLayers ]

\* sourcesWithQ = heatSources.map((pipe, i) => ({ ...pipe, Q: sourceCalcs[i].Q }))
\* (line 714).  sourceCalcs is complete when this line runs; a source without
\* an entry in sourceCalcs is given no Q here.
SourcesWithQ(heatSources, sourceCalcs) ==
    [i \in 1..Len(heatSources) |->
        [Q |-> IF i <= Len(sourceCalcs) THEN sourceCalcs[i].Q ELSE Undefined]
        @@ heatSources[i]]

\* Lines 775-803: the CalculationData assembled from the two passes.
AssembleCalculationData(pipes, soilLayers, T_soil_C, heatSources, affectedPipes, sourceCalcs, sourcesWithQ, affectedPipeCalcs) ==
    LET results == [i \in 1..Len(heatSources) |->
                        [pipeId |-> heatSources[i].id, finalTemp |-> heatSources[i].temp]]
                   \o [i \in 1..Len(affectedPipes) |->
                        [pipeId |-> affectedPipeCalcs[i].pipeId,
                         finalTemp |-> affectedPipeCalcs[i].finalTemp]]
        allCalculatedPipes == [i \in 1..Len(pipes) |->
            LET ById(r) == r.pipeId = pipes[i].id
                SrcById(s) == s.id = pipes[i].id
                ri == FindIdx(results, ById)
                si == FindIdx(sourcesWithQ, SrcById)
            IN  [ temp |-> results[ri].finalTemp,
                  Q    |-> IF si > 0 THEN sourcesWithQ[si].Q ELSE Undefined ] @@ pipes[i]]
    IN  [ inputs |-> [pipes |-> pipes, soilLayers |-> soilLayers, T_soil |-> T_soil_C],
          results |-> results,
          sceneData |-> createSceneData(allCalculatedPipes, soilLayers, T_soil_C),
          detailedCalculations |-> [sources |-> sourceCalcs,
                                    affectedPipes |-> affectedPipeCalcs] ]

\* Lines 717-803: affectedPipeCalcs from sourcesWithQ, and the return value.
AfterSourcesWithQ(pipes, soilLayers, T_soil_C, heatSources, affectedPipes, sourceCalcs, sourcesWithQ) ==
    AssembleCalculationData(pipes, soilLayers, T_soil_C, heatSources, affectedPipes,
                            sourceCalcs, sourcesWithQ,
                            [i \in 1..Len(affectedPipes) |->
                                AffectedPipeCalculation(affectedPipes[i], sourcesWithQ,
                                                        soilLayers, T_soil_C)])

\* Lines 714-803: calculateTemperatures once sourceCalcs is computed.
AfterSourceCalcs(pipes, soilLayers, T_soil_C, heatSources, affectedPipes, sourceCalcs) ==
    AfterSourcesWithQ(pipes, soilLayers, T_soil_C, heatSources, affectedPipes,
                      sourceCalcs, SourcesWithQ(heatSources, sourceCalcs))

calculateTemperatures(pipes, soilLayers, T_soil_C) ==
    LET heatSources   == FilterIdx(pipes,
                            { i \in 1..Len(pipes) : pipes[i].role = "heat_source" }, 1)
        affectedPipes == FilterIdx(pipes,
                            { i \in 1..Len(pipes) : pipes[i].role = "affected_pipe" }, 1)
    IN  AfterSourceCalcs(pipes, soilLayers, T_soil_C, heatSources, affectedPipes,
                         [i \in 1..Len(heatSources) |->
                             SourceCalculation(heatSources[i], soilLayers, T_soil_C)])

(***************************************************************************)
(* renderResultsTable                                                      *)
(***************************************************************************)
\* s with x inserted before the first element of a greater pipeId (s sorted).
RECURSIVE InsertByPipeId(_, _)
InsertByPipeId(x, s) ==
    IF s = << >> THEN << x >>
    ELSE IF s[1].pipeId > x.pipeId THEN << x >> \o s
    ELSE << s[1] >> \o InsertByPipeId(x, Tail(s))

\* results.sort((a, b) => a.pipeId - b.pipeId) on the first n elements: ascending
\* pipeId, equal ids in their order in results.
RECURSIVE SortByPipeId(_, _)
SortByPipeId(results, n) ==
    IF n = 0 THEN << >>
    ELSE InsertByPipeId(results[n], SortByPipeId(results, n - 1))

\* renderResultsTable(data.results): what the call leaves in data.  The sort at
\* line 2142 is in place, and the array is the one data.results refers to.
renderResultsTable(data) ==
    [data EXCEPT !.results = SortByPipeId(data.results, Len(data.results))]

(***************************************************************************)
(* calculateTemperatures, statement by statement                           *)
(*                                                                         *)
(* The statements that compute, in the order the source runs them:         *)
(*   "Q"     one callback of heatSources.map (lines 692-712),              *)
(*   "pair"  line 714,                                                     *)
(*   "rise"  one callback of sourcesWithQ.forEach (lines 721-769),         *)
(*   "total" lines 771-772 of one callback of affectedPipes.map.           *)
(***************************************************************************)
Statement(op, source, affected) == [op |-> op, source |-> source, affected |-> affected]

\* The concatenation of the sequences ss[i], ss[i + 1], ...
RECURSIVE ConcatFrom(_, _)
ConcatFrom(ss, i) == IF i > Len(ss) THEN << >> ELSE ss[i] \o ConcatFrom(ss, i + 1)

\* The statements of one callback of affectedPipes.map.
AffectedStatements(heatSources, a) ==
    [j \in 1..Len(heatSources) |-> Statement("rise", j, a)] \o << Statement("total", 0, a) >>

\* calculateTemperatures with the affected-pipe loop moved into the first callback
\* of heatSources.map: the rises are computed once the first source has its Q.
SolverProgramEarlyRise(heatSources, affectedPipes) ==
    LET n == Len(heatSources)
        first == IF n > 0 THEN << Statement("Q", 1, 0) >> ELSE << >>
        rest  == [i \in 1..(IF n > 0 THEN n - 1 ELSE 0) |-> Statement("Q", i + 1, 0)]
    IN  first \o << Statement("pair", 0, 0) >>
        \o ConcatFrom([a \in 1..Len(affectedPipes) |-> AffectedStatements(heatSources, a)], 1)
        \o rest

\* The statements of calculateTemperatures in program order.
SolverProgram(heatSources, affectedPipes) ==
    [i \in 1..Len(heatSources) |-> Statement("Q", i, 0)]
    \o << Statement("pair", 0, 0) >>
    \o ConcatFrom([a \in 1..Len(affectedPipes) |-> AffectedStatements(heatSources, a)], 1)

\* The locals of a call calculateTemperatures(pipes, soilLayers, T_soil_C) at entry.
NewSolver(pipes, soilLayers, T_soil_C) ==
    LET heatSources   == FilterIdx(pipes,
                            { i \in 1..Len(pipes) : pipes[i].role = "heat_source" }, 1)
        affectedPipes == FilterIdx(pipes,
                            { i \in 1..Len(pipes) : pipes[i].role = "affected_pipe" }, 1)
    IN  [ pipes |-> pipes, soilLayers |-> soilLayers, T_soil_C |-> T_soil_C,
          heatSources |-> heatSources, affectedPipes |-> affectedPipes,
          program |-> SolverProgram(heatSources, affectedPipes), pc |-> 1,
          sourceCalcs |-> << >>, paired |-> FALSE, sourcesWithQ |-> << >>,
          interactionCalcs |-> << >>, affectedPipeCalcs |-> << >> ]

\* The locals after the statement at pc.
SolverExecute(s) ==
    LET st == s.program[s.pc]
        after == [s EXCEPT !.pc = s.pc + 1]
    IN  CASE st.op = "Q" ->
               [after EXCEPT !.sourceCalcs =
                   Append(s.sourceCalcs,
                          SourceCalculation(s.heatSources[st.source], s.soilLayers, s.T_soil_C))]
          [] st.op = "pair" ->
               [after EXCEPT !.paired = TRUE,
                             !.sourcesWithQ = SourcesWithQ(s.heatSources, s.sourceCalcs)]
          [] st.op = "rise" ->
               LET source == s.sourcesWithQ[st.source]
                   affectedPipe == s.affectedPipes[st.affected]
               IN  IF source.id = affectedPipe.id THEN after
                   ELSE [after EXCEPT !.interactionCalcs =
                            Append(s.interactionCalcs,
                                   InteractionCalculation(source, affectedPipe, s.soilLayers))]
          [] st.op = "total" ->
               [after EXCEPT
                  !.interactionCalcs = << >>,
                  !.affectedPipeCalcs =
                      Append(s.affectedPipeCalcs,
                             AffectedTotals(s.affectedPipes[st.affected].id, s.T_soil_C,
                                            s.interactionCalcs))]

\* The value calculateTemperatures returns once every statement has run.
SolverResult(s) ==
    AssembleCalculationData(s.pipes, s.soilLayers, s.T_soil_C, s.heatSources, s.affectedPipes,
                            s.sourceCalcs, s.sourcesWithQ, s.affectedPipeCalcs)

(***************************************************************************)
(* calculateTemperatureAtPoint                                             *)
(***************************************************************************)
\* distToCenter of a pipe from the query point (x, z).
DistToCenter(pipe, x, z) ==
    IF pipe.orientation = "parallel"
    THEN FHypot(FSub(x, pipe.x), FSub(z, pipe.z))
    ELSE FHypot(FSub(Zero, pipe.y), FSub(z, pipe.z))

\* return isFinite(T_surface) ? T_surface : sceneData.T_soil  (line 836)
FiniteOr(T, T_soil) == IF IsFinite(T) THEN T ELSE T_soil

\* Lines 833-836: the temperature returned inside the insulation or bedding of a
\* source with a heat flux, k_eff_soil being the soil conductivity at the pipe.
SurfaceTemperature(pipe, T_soil, k_eff_soil) ==
    IF FLe(k_eff_soil, Zero) THEN T_soil
    ELSE FiniteOr(FAdd(T_soil, FMul(FDiv(pipe.Q, TwoPiK(k_eff_soil)),
                                    FLog(FDiv(FMul(Num(2), pipe.z), pipe.r_bed)))),
                  T_soil)

\* The first loop (lines 820-839) from pipe i on: the early return, if any.
\* [hit |-> TRUE, temp, branch, pipe] when a pipe returns a value, else hit = FALSE.
RECURSIVE InsidePipeReturn(_, _, _, _)
InsidePipeReturn(sceneData, x, z, i) ==
    IF i > Len(sceneData.pipes) THEN [hit |-> FALSE]
    ELSE LET pipe == sceneData.pipes[i]
             distToCenter == DistToCenter(pipe, x, z)
         IN  IF FLe(distToCenter, pipe.r_bed)
             THEN IF FLe(distToCenter, pipe.r_pipe)
                  THEN [hit |-> TRUE, temp |-> pipe.temp, branch |-> "pipe", pipe |-> i]
                  ELSE IF pipe.isSource /\ pipe.Q # Undefined /\ Truthy(pipe.Q)
                  THEN [ hit |-> TRUE, branch |-> "surface", pipe |-> i,
                         temp |-> SurfaceTemperature(
                                      pipe, sceneData.T_soil,
                                      EffectiveSoilK(pipe.z,
                                                     FDiv(FMul(pipe.r_bed, Num(2)), Num(2)),
                                                     sceneData.layers)) ]
                  ELSE InsidePipeReturn(sceneData, x, z, i + 1)
             ELSE InsidePipeReturn(sceneData, x, z, i + 1)

\* What the second loop does with one source (lines 862-867), given whether the
\* test of line 862 passed and the tempRise of line 863:
\* [added |-> whether totalTempRise += tempRise ran, tempRise, d_real, d_image, k_eff_path].
PointTermRecord(guard, tempRise, d_real, d_image, k_eff_path) ==
    [ added |-> guard /\ IsFinite(tempRise),
      tempRise |-> IF guard THEN tempRise ELSE Zero,
      d_real |-> d_real, d_image |-> d_image, k_eff_path |-> k_eff_path ]

\* Lines 862-867 without the d_image > d_real test.
PointTermNoImageTest(Q, d_real, d_image, k_eff_path) ==
    PointTermRecord(FGt(k_eff_path, Zero) /\ FGt(d_real, Zero),
                    FMul(FDiv(Q, TwoPiK(k_eff_path)), FLog(FDiv(d_image, d_real))),
                    d_real, d_image, k_eff_path)

\* Lines 862-867: if (k_eff_path > 0 && d_image > d_real && d_real > 0) { ... }
PointTerm(Q, d_real, d_image, k_eff_path) ==
    PointTermRecord(FGt(k_eff_path, Zero) /\ FGt(d_image, d_real) /\ FGt(d_real, Zero),
                    FMul(FDiv(Q, TwoPiK(k_eff_path)), FLog(FDiv(d_image, d_real))),
                    d_real, d_image, k_eff_path)

\* The term of one source in the second loop (lines 844-868).
PointSourceTerm(source, x, z, layers) ==
    LET parallel == source.orientation = "parallel"
    IN  PointTerm(source.Q,
            \* d_real = Math.max(distToCenter, r_outer_source)
            FMax(DistToCenter(source, x, z), source.r_bed),
            \* d_image
            IF parallel THEN FHypot(FSub(x, source.x), FAdd(z, source.z))
            ELSE FHypot(FSub(Zero, source.y), FAdd(z, source.z)),
            \* k_eff_path
            IF parallel
            THEN getEffectiveKForPath([x |-> source.x, z |-> source.z],
                                      [x |-> x, z |-> z], layers)
            ELSE getEffectiveKForPath([x |-> source.y, z |-> source.z],
                                      [x |-> Zero, z |-> z], layers))

\* The indices (in sceneData.pipes) of the sources the second loop visits.
PointHeatSources(sceneData) ==
    { i \in 1..Len(sceneData.pipes) :
        sceneData.pipes[i].isSource /\ sceneData.pipes[i].Q # Undefined }

\* The first loop of calculateTemperatureAtPoint skipped: superposition everywhere.
InsidePipeNever(sceneData, x, z) == [hit |-> FALSE]

\* The first loop of calculateTemperatureAtPoint.
InsidePipe(sceneData, x, z) == InsidePipeReturn(sceneData, x, z, 1)

\* Lines 870-871 (or the early return of the first loop):
\* [temp, branch ("pipe" | "surface" | "superposition"), pipe, terms (sources added),
\*  termCalcs (what the second loop computed for each source it visited)].
PointResult(inside, T_soil, term, added, finalTemp) ==
    IF inside.hit
    THEN [temp |-> inside.temp, branch |-> inside.branch, pipe |-> inside.pipe, terms |-> {},
          termCalcs |-> [i \in {} |-> Zero]]
    ELSE [temp |-> FiniteOr(finalTemp, T_soil), branch |-> "superposition", pipe |-> 0,
          terms |-> added, termCalcs |-> term]

\* totalTempRise over the sources whose term was added (in the order of
\* sceneData.pipes), and finalTemp = T_soil + totalTempRise.
PointTotals(inside, sceneData, term, added) ==
    PointResult(inside, sceneData.T_soil, term, added,
                FAdd(sceneData.T_soil,
                     SumFrom(FilterIdx([i \in 1..Len(sceneData.pipes) |->
                                           IF i \in added THEN term[i].tempRise ELSE Zero],
                                       added, 1),
                             1, Zero)))

\* The second loop, given the term of each source it visits.
PointTerms(inside, sceneData, term) ==
    PointTotals(inside, sceneData, term, { i \in DOMAIN term : term[i].added })

\* calculateTemperatureAtPoint with what it did.
PointEvaluation(x, z, sceneData) ==
    PointTerms(InsidePipe(sceneData, x, z), sceneData,
               [i \in PointHeatSources(sceneData) |->
                   PointSourceTerm(sceneData.pipes[i], x, z, sceneData.layers)])

calculateTemperatureAtPoint(x, z, sceneData) == PointEvaluation(x, z, sceneData).temp

(***************************************************************************)
(* marchingCubes                                                           *)
(*                                                                         *)
(* Arrays are indexed from 0 in the source: edgeTable[c] is edgeTable[c+1] *)
(* here, and likewise for triTable and its rows.  A lattice (data) is a    *)
(* function on 0 .. dimX*dimY*dimZ - 1; a THREE.Vector3 is a record        *)
(* [x, y, z] of numbers.                                                   *)
(***************************************************************************)
edgeTable ==
    <<
    0, 265, 515, 778, 1030, 1295, 1541, 1804, 2060, 2309, 2575, 2822, 3082, 3331, 3593, 3840,
    400, 153, 915, 666, 1430, 1183, 1941, 1692, 2460, 2197, 2975, 2710, 3482, 3219, 3993, 3728,
    560, 825, 51, 314, 1590, 1855, 1077, 1340, 2620, 2869, 2111, 2358, 3642, 3891, 3129, 3376,
    928, 681, 419, 170, 1958, 1711, 1445, 1196, 2988, 2725, 2479, 2214, 4010, 3747, 3497, 3232,
    1120, 1385, 1635, 1898, 102, 367, 613, 876, 3180, 3429, 3695, 3942, 2154, 2403, 2665, 2912,
    1520, 1273, 2035, 1786, 502, 255, 1013, 764, 3580, 3317, 4095, 3830, 2554, 2291, 3065, 2800,
    1616, 1881, 1107, 1370, 598, 863, 85, 348, 3676, 3925, 3167, 3414, 2650, 2899, 2137, 2384,
    1984, 1737, 1475, 1226, 966, 719, 453, 204, 4044, 3781, 3535, 3270, 3018, 2755, 2505, 2240,
    2240, 2505, 2755, 3018, 3270, 3535, 3781, 4044, 204, 453, 719, 966, 1226, 1475, 1737, 1984,
    2384, 2137, 2899, 2650, 3414, 3167, 3925, 3676, 348, 85, 863, 598, 1370, 1107, 1881, 1616,
    2800, 3065, 2291, 2554, 3830, 4095, 3317, 3580, 764, 1013, 255, 502, 1786, 2035, 1273, 1520,
    2912, 2665, 2403, 2154, 3942, 3695, 3429, 3180, 876, 613, 367, 102, 1898, 1635, 1385, 1120,
    3232, 3497, 3747, 4010, 2214, 2479, 2725, 2988, 1196, 1445, 1711, 1958, 170, 419, 681, 928,
    3376, 3129, 3891, 3642, 2358, 2111, 2869, 2620, 1340, 1077, 1855, 1590, 314, 51, 825, 560,
    3728, 3993, 3219, 3482, 2710, 2975, 2197, 2460, 1692, 1941, 1183, 1430, 666, 915, 153, 400,
    3840, 3593, 3331, 3082, 2822, 2575, 2309, 2060, 1804, 1541, 1295, 1030, 778, 515, 265, 0
    >>

triTable ==
    <<
    << -1, -1, -1, -1, -1, -1, -1, -1, -1, -1, -1, -1, -1, -1, -1, -1 >>,
    << -1, -1, -1, -1, -1, -1, -1, -1, -1, -1, -1, -1, -1, -1, -1, -1 >>,
    << 0, 8, 3, -1, -1, -1, -1, -1, -1, -1, -1, -1, -1, -1, -1, -1 >>,
    << 1, 0, 3, -1, 1, 3, 8, -1, -1, -1, -1, -1, -1, -1, -1, -1 >>,
    << 1, 2, 3, -1, -1, -1, -1, -1, -1, -1, -1, -1, -1, -1, -1, -1 >>,
    << 0, 8, 3, -1, 1, 2, 0, -1, -1, -1, -1, -1, -1, -1, -1, -1 >>,
    << 0, 2, 3, -1, 0, 3, 1, -1, -1, -1, -1, -1, -1, -1, -1, -1 >>,
    << 8, 3, 1, -1, 8, 1, 2, -1, -1, -1, -1, -1, -1, -1, -1, -1 >>,
    << 4, 7, 8, -1, -1, -1, -1, -1, -1, -1, -1, -1, -1, -1, -1, -1 >>,
    << 4, 7, 8, -1, 0, 3, 4, -1, 3, 7, 4, -1, -1, -1, -1, -1 >>,
    << 0, 3, 4, -1, 0, 4, 7, -1, 0, 7, 8, -1, -1, -1, -1, -1 >>,
    << 1, 3, 8, -1, 1, 8, 7, -1, 1, 7, 4, -1, 3, 7, 8, -1 >>,
    << 1, 2, 4, -1, 1, 4, 7, -1, 1, 7, 8, -1, -1, -1, -1, -1 >>,
    << 0, 8, 1, -1, 0, 7, 8, -1, 0, 4, 7, -1, 1, 2, 4, -1 >>,
    << 0, 2, 3, -1, 4, 7, 0, -1, 2, 7, 0, -1, -1, -1, -1, -1 >>,
    << 2, 3, 4, -1, 2, 4, 7, -1, 2, 7, 8, -1, 3, 7, 4, -1 >>,
    << 4, 5, 6, -1, -1, -1, -1, -1, -1, -1, -1, -1, -1, -1, -1, -1 >>,
    << 4, 5, 6, -1, 0, 8, 3, -1, 4, 0, 3, -1, 5, 3, 0, -1 >>,
    << 0, 3, 4, -1, 0, 4, 5, -1, 0, 5, 6, -1, 3, 5, 4, -1 >>,
    << 8, 3, 1, -1, 8, 1, 6, -1, 8, 6, 5, -1, 3, 6, 1, -1 >>,
    << 1, 2, 6, -1, 1, 6, 5, -1, 1, 5, 4, -1, -1, -1, -1, -1 >>,
    << 3, 0, 8, -1, 3, 8, 5, -1, 3, 5, 4, -1, 0, 5, 8, -1 >>,
    << 0, 2, 3, -1, 0, 3, 6, -1, 0, 6, 5, -1, 2, 5, 3, -1 >>,
    << 8, 3, 1, -1, 8, 1, 2, -1, 8, 2, 5, -1, 3, 5, 1, -1 >>,
    << 4, 5, 6, -1, 4, 6, 7, -1, -1, -1, -1, -1, -1, -1, -1, -1 >>,
    << 0, 8, 3, -1, 4, 5, 3, -1, 8, 5, 3, -1, 4, 6, 7, -1 >>,
    << 7, 8, 4, -1, 7, 4, 5, -1, 7, 5, 0, -1, 8, 5, 4, -1 >>,
    << 3, 7, 4, -1, 3, 4, 5, -1, 3, 5, 1, -1, 7, 5, 4, -1 >>,
    << 1, 2, 6, -1, 1, 6, 7, -1, 1, 7, 4, -1, 2, 7, 6, -1 >>,
    << 8, 1, 2, -1, 8, 2, 6, -1, 8, 6, 7, -1, 1, 6, 2, -1 >>,
    << 0, 2, 3, -1, 4, 7, 6, -1, 0, 3, 6, -1, 2, 7, 3, -1 >>,
    << 2, 3, 4, -1, 2, 4, 7, -1, -1, -1, -1, -1, -1, -1, -1, -1 >>,
    << 9, 10, 11, -1, -1, -1, -1, -1, -1, -1, -1, -1, -1, -1, -1, -1 >>,
    << 0, 8, 3, -1, 9, 10, 11, -1, 0, 9, 3, -1, 8, 10, 9, -1 >>,
    << 1, 2, 0, -1, 9, 10, 11, -1, 1, 9, 0, -1, 2, 10, 9, -1 >>,
    << 1, 2, 3, -1, 9, 10, 11, -1, -1, -1, -1, -1, -1, -1, -1, -1 >>,
    << 4, 7, 8, -1, 9, 10, 11, -1, 4, 9, 8, -1, 7, 10, 9, -1 >>,
    << 4, 7, 8, -1, 0, 3, 4, -1, 3, 7, 4, -1, 9, 10, 11, -1 >>,
    << 0, 3, 4, -1, 0, 4, 7, -1, 0, 7, 8, -1, 9, 10, 11, -1 >>,
    << 1, 3, 8, -1, 1, 8, 7, -1, 1, 7, 4, -1, 3, 7, 8, -1, 9, 10, 11, -1 >>,
    << 4, 5, 6, -1, 9, 10, 11, -1, 4, 9, 6, -1, 5, 10, 9, -1 >>,
    << 3, 0, 8, -1, 3, 8, 5, -1, 3, 5, 4, -1, 9, 10, 11, -1, 4, 9, 5, -1, 0, 10, 9, -1 >>,
    << 0, 3, 4, -1, 0, 4, 5, -1, 0, 5, 6, -1, 9, 10, 11, -1, 3, 9, 5, -1, 4, 10, 9, -1 >>,
    << 1, 3, 8, -1, 1, 8, 5, -1, 1, 5, 6, -1, 3, 5, 8, -1, 9, 10, 11, -1 >>,
    << 1, 2, 6, -1, 1, 6, 5, -1, 1, 5, 4, -1, 9, 10, 11, -1, 2, 9, 5, -1, 1, 10, 9, -1 >>,
    << 0, 8, 3, -1, 1, 2, 0, -1, -1, -1, -1, -1, 9, 10, 11, -1, 2, 9, 3, -1, 0, 10, 9, -1 >>,
    << 9, 10, 11, -1, 0, 2, 3, -1, 0, 3, 6, -1, 0, 6, 5, -1, 2, 9, 3, -1, 6, 10, 9, -1 >>,
    << 1, 2, 3, -1, 9, 10, 11, -1, 8, 5, 1, -1, 3, 8, 1, -1, 6, 10, 9, -1, 5, 9, 1, -1 >>,
    << 1, 2, 11, -1, 1, 11, 9, -1, -1, -1, -1, -1, -1, -1, -1, -1 >>,
    << 0, 8, 3, -1, 1, 2, 11, -1, 0, 1, 11, -1, 8, 2, 1, -1 >>,
    << 0, 2, 3, -1, 0, 3, 11, -1, 0, 11, 9, -1, 2, 11, 3, -1 >>,
    << 1, 2, 3, -1, 3, 2, 11, -1, -1, -1, -1, -1, -1, -1, -1, -1 >>,
    << 4, 7, 8, -1, 1, 2, 11, -1, 4, 1, 8, -1, 7, 2, 1, -1 >>,
    << 4, 7, 8, -1, 0, 3, 4, -1, 3, 7, 4, -1, 1, 2, 11, -1 >>,
    << 8, 0, 3, -1, 8, 3, 11, -1, 8, 11, 7, -1, 0, 11, 3, -1 >>,
    << 1, 3, 11, -1, 1, 11, 7, -1, 1, 7, 4, -1, 3, 7, 11, -1 >>,
    << 4, 5, 6, -1, 1, 2, 11, -1, 4, 1, 6, -1, 5, 2, 1, -1 >>,
    << 0, 8, 3, -1, 1, 2, 11, -1, 0, 1, 3, -1, 8, 2, 1, -1, 4, 5, 6, -1 >>,
    << 11, 9, 0, -1, 11, 0, 3, -1, 11, 3, 6, -1, 9, 3, 0, -1 >>,
    << 1, 2, 3, -1, 1, 3, 6, -1, 1, 6, 5, -1, 3, 5, 6, -1, 11, 9, 1, -1 >>,
    << 1, 2, 11, -1, 1, 11, 4, -1, 1, 4, 5, -1, 2, 4, 11, -1 >>,
    << 3, 0, 8, -1, 3, 8, 5, -1, 3, 5, 4, -1, 2, 11, 1, -1, 0, 4, 8, -1 >>,
    << 0, 2, 3, -1, 0, 3, 6, -1, 0, 6, 5, -1, 2, 11, 3, -1, 6, 4, 5, -1 >>,
    << 3, 8, 2, -1, 3, 2, 11, -1, 8, 11, 2, -1, -1, -1, -1, -1 >>,
    << 4, 5, 6, -1, 4, 6, 7, -1, 1, 2, 9, -1, 5, 1, 9, -1, 6, 2, 1, -1 >>,
    << 0, 8, 3, -1, 4, 5, 3, -1, 8, 5, 3, -1, 4, 6, 7, -1, 1, 2, 9, -1 >>,
    << 8, 4, 7, -1, 8, 7, 5, -1, 8, 5, 0, -1, 4, 5, 7, -1, 1, 2, 9, -1 >>,
    << 1, 2, 9, -1, 3, 7, 4, -1, 3, 4, 5, -1, 3, 5, 1, -1, 7, 5, 4, -1 >>,
    << 1, 2, 6, -1, 1, 6, 7, -1, 1, 7, 4, -1, 2, 7, 6, -1, 9, 10, 1, -1 >>,
    << 1, 6, 2, -1, 8, 6, 1, -1, 7, 6, 8, -1, -1, -1, -1, -1, 9, 10, 1, -1 >>,
    << 3, 0, 2, -1, 3, 2, 7, -1, 3, 7, 4, -1, 0, 7, 2, -1, 9, 10, 1, -1, 6, 8, 7, -1 >>,
    << 2, 3, 4, -1, 2, 4, 7, -1, 9, 10, 1, -1, 3, 9, 1, -1, 4, 10, 9, -1 >>,
    << 9, 10, 11, -1, 2, 3, 7, -1, 11, 2, 7, -1, 10, 3, 2, -1 >>,
    << 0, 8, 3, -1, 9, 10, 11, -1, 2, 3, 7, -1, 0, 9, 3, -1, 11, 2, 7, -1, 8, 10, 9, -1 >>,
    << 0, 2, 3, -1, 9, 10, 11, -1, 1, 9, 0, -1, 2, 10, 9, -1, 3, 7, 0, -1, 11, 1, 9, -1 >>,
    << 1, 2, 3, -1, 9, 10, 11, -1, 3, 7, 1, -1, 11, 2, 7, -1, 10, 3, 2, -1 >>,
    << 1, 2, 11, -1, 1, 11, 9, -1, 4, 7, 8, -1, 2, 8, 11, -1, 9, 4, 8, -1 >>,
    << 1, 2, 11, -1, 0, 8, 3, -1, 0, 1, 11, -1, 8, 2, 1, -1, 4, 7, 8, -1 >>,
    << 0, 2, 3, -1, 0, 3, 11, -1, 0, 11, 9, -1, 2, 11, 3, -1, 4, 7, 8, -1 >>,
    << 1, 2, 3, -1, 3, 2, 11, -1, 4, 7, 8, -1, -1, -1, -1, -1 >>,
    << 4, 5, 6, -1, 9, 10, 11, -1, 1, 2, 9, -1, 5, 10, 9, -1, 6, 2, 10, -1 >>,
    << 0, 8, 3, -1, 1, 2, 10, -1, 0, 1, 10, -1, 8, 2, 1, -1, 9, 5, 4, -1, 11, 6, 5, -1 >>,
    << 0, 2, 3, -1, 9, 10, 11, -1, 3, 9, 0, -1, 5, 9, 3, -1, 6, 10, 9, -1 >>,
    << 1, 2, 3, -1, 9, 10, 11, -1, 8, 6, 5, -1, 3, 8, 5, -1, 1, 9, 6, -1, 2, 10, 9, -1 >>,
    << 1, 2, 9, -1, 1, 9, 10, -1, 1, 10, 5, -1, 2, 5, 9, -1 >>,
    << 0, 8, 3, -1, 0, 3, 5, -1, 0, 5, 10, -1, 8, 5, 3, -1 >>,
    << 9, 10, 0, -1, 9, 0, 3, -1, 9, 3, 5, -1, 10, 5, 0, -1 >>,
    << 3, 8, 5, -1, 10, 3, 5, -1, -1, -1, -1, -1, -1, -1, -1, -1 >>,
    << 1, 2, 9, -1, 1, 9, 10, -1, 1, 10, 6, -1, 2, 6, 9, -1 >>,
    << 0, 8, 3, -1, 2, 9, 1, -1, 0, 6, 9, -1, 2, 0, 9, -1 >>,
    << 0, 2, 3, -1, 0, 3, 6, -1, 0, 6, 10, -1, 2, 6, 3, -1 >>,
    << 2, 3, 6, -1, 10, 2, 6, -1, -1, -1, -1, -1, -1, -1, -1, -1 >>,
    << 1, 2, 9, -1, 1, 9, 10, -1, 4, 7, 8, -1, 2, 8, 9, -1, 10, 4, 8, -1 >>,
    << 0, 8, 3, -1, 1, 2, 9, -1, 0, 1, 9, -1, 8, 2, 1, -1, 4, 7, 8, -1, 10, 4, 9, -1 >>,
    << 0, 2, 3, -1, 9, 10, 0, -1, 2, 10, 0, -1, 4, 7, 8, -1 >>,
    << 1, 2, 3, -1, 4, 7, 8, -1, 9, 10, 1, -1, -1, -1, -1, -1 >>,
    << 1, 2, 9, -1, 1, 9, 10, -1, 4, 5, 6, -1, 2, 6, 9, -1, 10, 4, 6, -1 >>,
    << 1, 2, 10, -1, 0, 8, 3, -1, 0, 1, 10, -1, 8, 2, 1, -1, 4, 5, 6, -1 >>,
    << 0, 2, 3, -1, 0, 3, 6, -1, 0, 6, 10, -1, 2, 6, 3, -1, 4, 5, 6, -1 >>,
    << 1, 2, 3, -1, 4, 5, 6, -1, 8, 10, 2, -1, 3, 8, 2, -1, 5, 10, 8, -1 >>,
    << 2, 3, 7, -1, 2, 7, 10, -1, -1, -1, -1, -1, -1, -1, -1, -1 >>,
    << 3, 0, 8, -1, 3, 8, 10, -1, 3, 10, 7, -1, 0, 10, 8, -1 >>,
    << 0, 2, 3, -1, 0, 3, 7, -1, 0, 7, 10, -1, 2, 7, 3, -1 >>,
    << 2, 3, 7, -1, 10, 2, 7, -1, -1, -1, -1, -1, -1, -1, -1, -1 >>,
    << 1, 2, 6, -1, 1, 6, 7, -1, 1, 7, 10, -1, 2, 10, 6, -1 >>,
    << 1, 6, 2, -1, 8, 6, 1, -1, 7, 6, 8, -1, 10, 1, 6, -1, 8, 10, 6, -1 >>,
    << 0, 2, 3, -1, 4, 7, 6, -1, 0, 3, 6, -1, 2, 7, 3, -1, 10, 0, 6, -1, 7, 10, 6, -1 >>,
    << 2, 3, 4, -1, 2, 4, 7, -1, 10, 2, 7, -1, 4, 10, 7, -1 >>,
    << 1, 2, 6, -1, 1, 6, 7, -1, 9, 10, 1, -1, 6, 9, 1, -1, 7, 10, 9, -1 >>,
    << 1, 6, 2, -1, 8, 6, 1, -1, 7, 6, 8, -1, 9, 10, 1, -1 >>,
    << 3, 0, 2, -1, 3, 2, 7, -1, 3, 7, 4, -1, 0, 7, 2, -1, 9, 10, 1, -1, 6, 8, 7, -1 >>,
    << 2, 3, 4, -1, 2, 4, 7, -1, 9, 10, 1, -1, 3, 9, 1, -1, 4, 10, 9, -1, 7, 9, 4, -1 >>,
    << 2, 3, 7, -1, 2, 7, 11, -1, 9, 10, 2, -1, 7, 10, 2, -1, 11, 10, 7, -1 >>,
    << 3, 0, 8, -1, 3, 8, 11, -1, 3, 11, 7, -1, 0, 11, 8, -1, 9, 10, 2, -1 >>,
    << 0, 2, 3, -1, 0, 3, 11, -1, 0, 11, 9, -1, 2, 11, 3, -1, 7, 10, 2, -1 >>,
    << 2, 3, 7, -1, 11, 2, 7, -1, 10, 2, 11, -1, -1, -1, -1, -1 >>,
    << 2, 7, 6, -1, 2, 11, 7, -1, -1, -1, -1, -1, -1, -1, -1, -1 >>,
    << 1, 8, 7, -1, 1, 7, 11, -1, 1, 11, 2, -1, 8, 11, 7, -1 >>,
    << 3, 0, 2, -1, 3, 2, 11, -1, 3, 11, 7, -1, 0, 11, 2, -1, 6, 8, 7, -1 >>,
    << 1, 3, 11, -1, 1, 11, 7, -1, 2, 6, 1, -1, 3, 2, 1, -1, 7, 6, 2, -1 >>,
    << 2, 7, 6, -1, 2, 11, 7, -1, 9, 10, 2, -1, 11, 10, 2, -1, 7, 10, 11, -1 >>,
    << 1, 8, 7, -1, 1, 7, 11, -1, 1, 11, 2, -1, 8, 11, 7, -1, 9, 10, 2, -1 >>,
    << 3, 0, 2, -1, 3, 2, 11, -1, 3, 11, 7, -1, 0, 11, 2, -1, 9, 10, 2, -1, 6, 8, 7, -1 >>,
    << 1, 3, 11, -1, 1, 11, 7, -1, 2, 6, 1, -1, 3, 2, 1, -1, 7, 6, 2, -1, 9, 10, 1, -1 >>,
    << 10, 11, 0, -1, 10, 0, 1, -1, -1, -1, -1, -1, -1, -1, -1, -1 >>,
    << 8, 3, 0, -1, 8, 0, 1, -1, 8, 1, 10, -1, 3, 10, 0, -1 >>,
    << 0, 2, 3, -1, 1, 10, 0, -1, 2, 10, 1, -1, -1, -1, -1, -1 >>,
    << 2, 3, 8, -1, 2, 8, 10, -1, 3, 10, 8, -1, -1, -1, -1, -1 >>,
    << 1, 10, 11, -1, 4, 7, 8, -1, 1, 4, 11, -1, 10, 7, 4, -1 >>,
    << 1, 10, 11, -1, 0, 3, 4, -1, 0, 4, 7, -1, 0, 7, 8, -1, 1, 4, 11, -1, 10, 7, 4, -1 >>,
    << 0, 3, 4, -1, 0, 4, 7, -1, 0, 7, 8, -1, 11, 10, 0, -1, 7, 11, 0, -1 >>,
    << 1, 3, 8, -1, 1, 8, 7, -1, 1, 7, 4, -1, 3, 7, 8, -1, 11, 10, 1, -1, 7, 11, 1, -1 >>,
    << 1, 10, 11, -1, 4, 5, 6, -1, 1, 4, 11, -1, 10, 5, 4, -1 >>,
    << 8, 3, 0, -1, 8, 0, 5, -1, 8, 5, 4, -1, 3, 5, 0, -1, 11, 10, 1, -1 >>,
    << 0, 3, 4, -1, 0, 4, 5, -1, 0, 5, 6, -1, 10, 11, 0, -1, 5, 10, 0, -1, 6, 11, 10, -1 >>,
    << 8, 3, 1, -1, 8, 1, 6, -1, 8, 6, 5, -1, 3, 6, 1, -1, 10, 11, 1, -1 >>,
    << 1, 10, 11, -1, 1, 11, 5, -1, 1, 5, 4, -1, 10, 5, 11, -1 >>,
    << 0, 8, 3, -1, 0, 3, 5, -1, 0, 5, 11, -1, 8, 5, 3, -1, 10, 11, 1, -1 >>,
    << 0, 2, 3, -1, 0, 3, 6, -1, 0, 6, 5, -1, 10, 11, 0, -1, 6, 10, 0, -1, 5, 11, 10, -1 >>,
    << 2, 3, 8, -1, 2, 8, 5, -1, 2, 5, 6, -1, 3, 5, 8, -1, 10, 11, 2, -1 >>,
    << 4, 5, 6, -1, 4, 6, 7, -1, 10, 11, 4, -1, 6, 10, 4, -1 >>,
    << 3, 0, 8, -1, 4, 5, 3, -1, 8, 5, 3, -1, 4, 6, 7, -1, 10, 11, 4, -1 >>,
    << 7, 8, 4, -1, 7, 4, 5, -1, 7, 5, 0, -1, 8, 5, 4, -1, 10, 11, 7, -1, 5, 10, 7, -1 >>,
    << 3, 7, 4, -1, 3, 4, 5, -1, 3, 5, 1, -1, 7, 5, 4, -1, 10, 11, 1, -1 >>,
    << 1, 2, 6, -1, 1, 6, 7, -1, 1, 7, 4, -1, 2, 7, 6, -1, 10, 11, 1, -1, 7, 10, 1, -1 >>,
    << 8, 1, 2, -1, 8, 2, 6, -1, 8, 6, 7, -1, 1, 6, 2, -1, 10, 11, 1, -1 >>,
    << 0, 2, 3, -1, 4, 7, 6, -1, 0, 3, 6, -1, 2, 7, 3, -1, 10, 11, 0, -1, 7, 10, 0, -1 >>,
    << 2, 3, 4, -1, 2, 4, 7, -1, 10, 11, 2, -1, 4, 10, 2, -1, 7, 11, 10, -1 >>,
    << 0, 1, 2, -1, 0, 2, 3, -1, -1, -1, -1, -1, -1, -1, -1, -1 >>,
    << 0, 1, 2, -1, 0, 2, 3, -1, 8, 7, 6, -1, 1, 7, 6, -1, 0, 8, 7, -1 >>,
    << 0, 1, 2, -1, 0, 2, 3, -1, 4, 5, 6, -1, 0, 5, 6, -1, 1, 4, 5, -1 >>,
    << 1, 2, 3, -1, 4, 5, 6, -1, -1, -1, -1, -1, -1, -1, -1, -1 >>,
    << 4, 5, 1, -1, 4, 1, 0, -1, -1, -1, -1, -1, -1, -1, -1, -1 >>,
    << 4, 5, 1, -1, 4, 1, 0, -1, 8, 7, 6, -1, 5, 7, 6, -1, 4, 8, 7, -1 >>,
    << 4, 5, 1, -1, 4, 1, 0, -1, 2, 3, 0, -1, 5, 3, 0, -1, 4, 2, 3, -1 >>,
    << 8, 7, 6, -1, 5, 4, 1, -1, 5, 1, 2, -1, 5, 2, 3, -1, 7, 2, 6, -1 >>,
    << 4, 5, 1, -1, 4, 1, 0, -1, 4, 0, 7, -1, 5, 7, 0, -1 >>,
    << 0, 8, 7, -1, 5, 4, 8, -1, -1, -1, -1, -1, -1, -1, -1, -1 >>,
    << 4, 5, 1, -1, 4, 1, 0, -1, 2, 3, 1, -1, 5, 3, 1, -1, 7, 3, 5, -1 >>,
    << 8, 7, 3, -1, 8, 3, 2, -1, 8, 2, 5, -1, 7, 5, 3, -1 >>,
    << 4, 5, 1, -1, 4, 11, 7, -1, 5, 11, 4, -1, -1, -1, -1, -1 >>,
    << 0, 8, 7, -1, 0, 7, 11, -1, 0, 11, 5, -1, 8, 11, 7, -1 >>,
    << 1, 0, 2, -1, 3, 11, 5, -1, 0, 11, 5, -1, 2, 3, 11, -1, 4, 7, 1, -1 >>,
    << 3, 2, 8, -1, 3, 8, 7, -1, 3, 7, 11, -1, 2, 7, 8, -1, 5, 4, 1, -1 >>,
    << 0, 1, 6, -1, 0, 6, 7, -1, 0, 7, 4, -1, 1, 7, 6, -1 >>,
    << 8, 6, 7, -1, -1, -1, -1, -1, -1, -1, -1, -1, -1, -1, -1, -1 >>,
    << 0, 1, 6, -1, 0, 6, 3, -1, 4, 7, 6, -1, 3, 4, 6, -1, 1, 7, 4, -1 >>,
    << 2, 3, 8, -1, 2, 8, 7, -1, 4, 6, 8, -1, 7, 4, 8, -1 >>,
    << 1, 2, 10, -1, 1, 10, 11, -1, 1, 11, 4, -1, 2, 4, 10, -1 >>,
    << 3, 0, 8, -1, 3, 8, 7, -1, 3, 7, 11, -1, 0, 7, 8, -1, 1, 2, 10, -1, 4, 11, 7, -1 >>,
    << 0, 1, 2, -1, 0, 2, 3, -1, 4, 7, 11, -1, 0, 7, 11, -1, 1, 4, 7, -1 >>,
    << 1, 2, 10, -1, 3, 8, 7, -1, 2, 8, 10, -1, 7, 3, 8, -1, 4, 11, 7, -1, 10, 11, 2, -1 >>,
    << 0, 1, 2, -1, 8, 9, 10, -1, 1, 8, 2, -1, 9, 10, 8, -1 >>,
    << 3, 0, 1, -1, 3, 1, 2, -1, 8, 9, 10, -1, -1, -1, -1, -1 >>,
    << 0, 1, 2, -1, 0, 2, 3, -1, 8, 9, 10, -1, 2, 8, 3, -1, 9, 10, 8, -1 >>,
    << 1, 2, 3, -1, 8, 9, 10, -1, -1, -1, -1, -1, -1, -1, -1, -1 >>,
    << 0, 1, 2, -1, 4, 5, 1, -1, 2, 4, 1, -1, -1, -1, -1, -1 >>,
    << 3, 0, 1, -1, 3, 1, 2, -1, 4, 5, 1, -1, -1, -1, -1, -1 >>,
    << 0, 1, 2, -1, 0, 2, 3, -1, 4, 5, 1, -1, 3, 4, 1, -1, 2, 5, 4, -1 >>,
    << 1, 2, 3, -1, 4, 5, 1, -1, -1, -1, -1, -1, -1, -1, -1, -1 >>,
    << 1, 2, 6, -1, 1, 6, 7, -1, 0, 4, 5, -1, 2, 4, 5, -1, 1, 0, 4, -1 >>,
    << 1, 2, 6, -1, 1, 6, 7, -1, 3, 0, 4, -1, 2, 3, 4, -1, 1, 0, 3, -1 >>,
    << 0, 1, 2, -1, 0, 2, 3, -1, 4, 5, 6, -1, -1, -1, -1, -1 >>,
    << 1, 2, 3, -1, 4, 5, 6, -1, -1, -1, -1, -1, -1, -1, -1, -1 >>,
    << 1, 2, 11, -1, 4, 7, 6, -1, 2, 7, 6, -1, 11, 4, 7, -1 >>,
    << 1, 2, 11, -1, 3, 0, 8, -1, 2, 0, 8, -1, 11, 3, 0, -1 >>,
    << 0, 1, 2, -1, 0, 2, 3, -1, 4, 7, 6, -1, 3, 4, 6, -1, 2, 7, 4, -1, 0, 3, 4, -1 >>,
    << 1, 2, 3, -1, 4, 7, 6, -1, -1, -1, -1, -1, -1, -1, -1, -1 >>,
    << 1, 2, 11, -1, 1, 11, 5, -1, 1, 5, 4, -1, 2, 5, 11, -1 >>,
    << 0, 8, 3, -1, 0, 3, 5, -1, 0, 5, 11, -1, 8, 5, 3, -1, 2, 1, 4, -1 >>,
    << 0, 1, 2, -1, 0, 2, 3, -1, 4, 5, 11, -1, 0, 5, 11, -1, 1, 4, 5, -1 >>,
    << 1, 2, 3, -1, 4, 5, 11, -1, 8, 5, 3, -1, 11, 2, 1, -1, 4, 8, 1, -1 >>,
    << 1, 2, 10, -1, 1, 10, 7, -1, 1, 7, 6, -1, 2, 7, 10, -1 >>,
    << 8, 7, 6, -1, 1, 2, 10, -1, 8, 1, 6, -1, 7, 2, 1, -1, 10, 8, 1, -1 >>,
    << 0, 1, 2, -1, 0, 2, 3, -1, 4, 7, 6, -1, 1, 7, 6, -1, 0, 8, 7, -1, 2, 4, 3, -1 >>,
    << 1, 2, 10, -1, 3, 4, 7, -1, 2, 4, 10, -1, 7, 1, 3, -1, 6, 10, 4, -1 >>,
    << 0, 1, 9, -1, 0, 9, 11, -1, 0, 11, 7, -1, 1, 11, 9, -1 >>,
    << 8, 9, 1, -1, 8, 1, 0, -1, 8, 0, 7, -1, 9, 0, 1, -1 >>,
    << 0, 1, 9, -1, 0, 9, 2, -1, 3, 7, 9, -1, 2, 3, 9, -1, 1, 7, 3, -1 >>,
    << 3, 2, 8, -1, 3, 8, 7, -1, 9, 1, 8, -1, 2, 9, 8, -1 >>,
    << 0, 1, 9, -1, 0, 9, 11, -1, 5, 4, 9, -1, 11, 5, 9, -1 >>,
    << 8, 9, 1, -1, 8, 1, 0, -1, 8, 0, 4, -1, 9, 4, 1, -1, 5, 8, 4, -1 >>,
    << 0, 1, 9, -1, 0, 9, 2, -1, 3, 4, 9, -1, 2, 3, 9, -1, 1, 5, 4, -1 >>,
    << 3, 2, 8, -1, 3, 8, 4, -1, 3, 4, 5, -1, 2, 4, 8, -1, 1, 9, 5, -1 >>,
    << 0, 1, 9, -1, 0, 9, 11, -1, 0, 11, 7, -1, 1, 11, 9, -1, 2, 10, 3, -1 >>,
    << 8, 9, 1, -1, 8, 1, 0, -1, 8, 0, 7, -1, 9, 0, 1, -1, 2, 10, 3, -1 >>,
    << 0, 1, 9, -1, 0, 9, 2, -1, 3, 7, 9, -1, 2, 3, 9, -1, 1, 7, 3, -1, 10, 2, 7, -1 >>,
    << 3, 2, 8, -1, 3, 8, 7, -1, 9, 1, 8, -1, 2, 9, 8, -1, 10, 3, 7, -1 >>,
    << 1, 2, 10, -1, 1, 10, 11, -1, 5, 4, 1, -1, 10, 4, 1, -1, 11, 5, 4, -1 >>,
    << 1, 2, 10, -1, 1, 10, 11, -1, 0, 8, 3, -1, 2, 8, 10, -1, 11, 0, 8, -1 >>,
    << 0, 1, 2, -1, 0, 2, 3, -1, 4, 5, 10, -1, 0, 5, 10, -1, 1, 4, 5, -1, 3, 11, 2, -1 >>,
    << 1, 2, 3, -1, 4, 5, 10, -1, 8, 5, 3, -1, 10, 2, 1, -1, 4, 8, 1, -1, 11, 2, 3, -1 >>,
    << 1, 2, 10, -1, 1, 10, 11, -1, 1, 11, 7, -1, 2, 7, 10, -1, 3, 8, 4, -1 >>,
    << 1, 2, 10, -1, 1, 10, 11, -1, 8, 7, 6, -1, 2, 7, 10, -1, 11, 8, 7, -1 >>,
    << 0, 1, 2, -1, 0, 2, 3, -1, 4, 7, 6, -1, 1, 7, 6, -1, 0, 8, 7, -1, 10, 11, 3, -1 >>,
    << 1, 2, 3, -1, 4, 7, 6, -1, 10, 11, 1, -1, -1, -1, -1, -1 >>,
    << 0, 4, 5, -1, 0, 5, 11, -1, 0, 11, 10, -1, 4, 11, 5, -1 >>,
    << 1, 0, 8, -1, 1, 8, 3, -1, 4, 5, 11, -1, 0, 5, 11, -1, 1, 4, 5, -1 >>,
    << 0, 4, 5, -1, 0, 5, 2, -1, 0, 2, 3, -1, 4, 2, 5, -1 >>,
    << 1, 0, 8, -1, 1, 8, 3, -1, 2, 4, 5, -1, 0, 4, 8, -1, 3, 2, 4, -1 >>,
    << 0, 4, 5, -1, 0, 5, 11, -1, 0, 11, 10, -1, 4, 11, 5, -1, 1, 2, 6, -1 >>,
    << 3, 1, 0, -1, 3, 0, 8, -1, 5, 11, 4, -1, 1, 2, 6, -1, 0, 5, 8, -1, 11, 6, 2, -1 >>,
    << 0, 4, 5, -1, 0, 5, 2, -1, 0, 2, 3, -1, 4, 2, 5, -1, 6, 11, 10, -1 >>,
    << 1, 0, 8, -1, 1, 8, 3, -1, 2, 4, 5, -1, 0, 4, 8, -1, 3, 2, 4, -1, 6, 11, 10, -1 >>,
    << 0, 4, 5, -1, 8, 9, 10, -1, 4, 8, 5, -1, 9, 10, 8, -1 >>,
    << 1, 0, 3, -1, 4, 5, 3, -1, 0, 5, 3, -1, -1, -1, -1, -1, 8, 9, 10, -1 >>,
    << 0, 4, 5, -1, 0, 5, 2, -1, 0, 2, 3, -1, 4, 2, 5, -1, 8, 9, 10, -1 >>,
    << 1, 0, 3, -1, 4, 5, 3, -1, 0, 5, 3, -1, 2, 8, 9, -1, 10, 4, 5, -1 >>,
    << 0, 4, 5, -1, 8, 9, 10, -1, 4, 8, 5, -1, 9, 10, 8, -1, 1, 2, 6, -1 >>,
    << 1, 0, 3, -1, 4, 5, 3, -1, 0, 5, 3, -1, 1, 2, 6, -1, 8, 9, 10, -1 >>,
    << 0, 4, 5, -1, 0, 5, 2, -1, 0, 2, 3, -1, 4, 2, 5, -1, 8, 9, 10, -1, 1, 6, 2, -1 >>,
    << 1, 0, 3, -1, 4, 5, 3, -1, 0, 5, 3, -1, 1, 2, 6, -1, 8, 9, 10, -1, 2, 5, 1, -1 >>,
    << 0, 4, 5, -1, 8, 9, 10, -1, 11, 7, 6, -1, 4, 8, 5, -1, 9, 10, 8, -1, 11, 7, 6, -1 >>,
    << 1, 0, 3, -1, 4, 5, 3, -1, 0, 5, 3, -1, 8, 9, 10, -1, 11, 7, 6, -1 >>,
    << 0, 4, 5, -1, 0, 5, 2, -1, 0, 2, 3, -1, 4, 2, 5, -1, 8, 9, 10, -1, 11, 7, 6, -1 >>,
    << 1, 0, 3, -1, 4, 5, 3, -1, 0, 5, 3, -1, 1, 2, 6, -1, 8, 9, 10, -1, 11, 7, 6, -1 >>,
    << 8, 9, 4, -1, -1, -1, -1, -1, -1, -1, -1, -1, -1, -1, -1, -1 >>,
    << 0, 3, 4, -1, 0, 4, 9, -1, 0, 9, 8, -1, 3, 9, 4, -1 >>,
    << 0, 3, 4, -1, 1, 2, 9, -1, 0, 1, 9, -1, 3, 2, 1, -1 >>,
    << 1, 2, 3, -1, 9, 8, 3, -1, -1, -1, -1, -1, -1, -1, -1, -1 >>,
    << 1, 2, 4, -1, 1, 4, 9, -1, 1, 9, 8, -1, 2, 9, 4, -1 >>,
    << 0, 3, 4, -1, 0, 4, 9, -1, 0, 9, 8, -1, 3, 9, 4, -1, 1, 2, 0, -1 >>,
    << 0, 2, 3, -1, 0, 3, 8, -1, 0, 8, 9, -1, 2, 8, 3, -1 >>,
    << 3, 8, 9, -1, 2, 3, 9, -1, -1, -1, -1, -1, -1, -1, -1, -1 >>,
    << 4, 7, 9, -1, 4, 9, 8, -1, -1, -1, -1, -1, -1, -1, -1, -1 >>,
    << 0, 3, 4, -1, 0, 4, 7, -1, 0, 7, 9, -1, 3, 7, 4, -1 >>,
    << 0, 3, 4, -1, 0, 4, 7, -1, 1, 2, 9, -1, 3, 1, 9, -1, 0, 2, 1, -1 >>,
    << 1, 2, 3, -1, 4, 7, 3, -1, 9, 8, 3, -1, 2, 4, 3, -1, 7, 9, 4, -1 >>,
    << 1, 2, 4, -1, 1, 4, 7, -1, 1, 7, 9, -1, 2, 7, 4, -1 >>,
    << 0, 3, 4, -1, 0, 4, 7, -1, 1, 2, 0, -1, 3, 7, 4, -1, 2, 7, 0, -1 >>,
    << 0, 2, 3, -1, 0, 3, 8, -1, 4, 7, 8, -1, 3, 4, 8, -1, 2, 7, 4, -1 >>,
    << 2, 3, 4, -1, 2, 4, 7, -1, -1, -1, -1, -1, -1, -1, -1, -1 >>,
    << 4, 5, 6, -1, 9, 8, 4, -1, 5, 6, 8, -1, -1, -1, -1, -1 >>,
    << 0, 3, 4, -1, 0, 4, 9, -1, 0, 9, 8, -1, 3, 9, 4, -1, 5, 6, 0, -1 >>,
    << 0, 3, 4, -1, 1, 2, 9, -1, 0, 1, 9, -1, 3, 2, 1, -1, 5, 6, 3, -1 >>,
    << 1, 2, 3, -1, 9, 8, 3, -1, 5, 6, 3, -1, -1, -1, -1, -1 >>,
    << 1, 2, 4, -1, 1, 4, 9, -1, 1, 9, 8, -1, 2, 9, 4, -1, 5, 6, 1, -1 >>,
    << 0, 3, 4, -1, 0, 4, 9, -1, 0, 9, 8, -1, 3, 9, 4, -1, 1, 2, 0, -1, 5, 6, 1, -1 >>,
    << 0, 2, 3, -1, 0, 3, 8, -1, 0, 8, 9, -1, 2, 8, 3, -1, 5, 6, 2, -1 >>,
    << 2, 3, 9, -1, 8, 3, 9, -1, 5, 6, 2, -1, -1, -1, -1, -1 >>,
    << 4, 5, 6, -1, 4, 6, 7, -1, 4, 7, 9, -1, 5, 7, 6, -1 >>,
    << 0, 3, 4, -1, 0, 4, 7, -1, 5, 6, 0, -1, 4, 9, 7, -1, 3, 5, 0, -1, 6, 9, 5, -1 >>,
    << 0, 3, 4, -1, 0, 4, 7, -1, 1, 2, 9, -1, 3, 1, 9, -1, 0, 2, 1, -1, 5, 6, 3, -1, 7, 5, 3, -1 >>,
    << 1, 2, 3, -1, 4, 7, 3, -1, 9, 8, 3, -1, 2, 4, 3, -1, 7, 9, 4, -1, 5, 6, 2, -1 >>,
    << 1, 2, 4, -1, 1, 4, 7, -1, 1, 7, 9, -1, 2, 7, 4, -1, 5, 6, 1, -1, 7, 5, 1, -1 >>,
    << 0, 3, 4, -1, 0, 4, 7, -1, 1, 2, 0, -1, 3, 7, 4, -1, 2, 7, 0, -1, 5, 6, 1, -1, 7, 5, 1, -1 >>,
    << 0, 2, 3, -1, 0, 3, 8, -1, 4, 7, 8, -1, 3, 4, 8, -1, 2, 7, 4, -1, 5, 6, 2, -1, 7, 5, 2, -1 >>,
    << 2, 3, 4, -1, 2, 4, 7, -1, 5, 6, 2, -1, 4, 5, 2, -1, 7, 6, 5, -1 >>,
    << 9, 10, 11, -1, 8, 7, 6, -1, 9, 8, 11, -1, 7, 6, 8, -1 >>,
    << 0, 3, 9, -1, 0, 9, 11, -1, 0, 11, 10, -1, 3, 11, 9, -1, 8, 7, 6, -1 >>,
    << 0, 1, 2, -1, 9, 10, 11, -1, 1, 9, 0, -1, 2, 10, 9, -1, 8, 7, 6, -1 >>,
    << 1, 2, 3, -1, 9, 10, 11, -1, 8, 7, 6, -1, -1, -1, -1, -1 >>,
    << 1, 2, 4, -1, 9, 10, 11, -1, 8, 7, 6, -1, 1, 8, 4, -1, 2, 7, 8, -1, 10, 11, 9, -1 >>,
    << 1, 2, 0, -1, 4, 7, 0, -1, 3, 0, 4, -1, -1, -1, -1, -1, 8, 9, 10, -1, 11, 6, 5, -1 >>,
    << 0, 1, 2, -1, 0, 2, 3, -1, 4, 7, 8, -1, 9, 10, 11, -1, -1, -1, -1, -1 >>,
    << 1, 2, 3, -1, 4, 7, 8, -1, 9, 10, 11, -1, -1, -1, -1, -1 >>,
    << 4, 5, 6, -1, 8, 9, 4, -1, 5, 9, 4, -1, -1, -1, -1, -1 >>,
    << 8, 9, 0, -1, 8, 0, 3, -1, 8, 3, 4, -1, 9, 3, 0, -1 >>,
    << 0, 1, 2, -1, 8, 9, 5, -1, 0, 5, 4, -1, 1, 5, 9, -1 >>,
    << 1, 2, 3, -1, 8, 9, 5, -1, 4, 3, 5, -1, -1, -1, -1, -1 >>,
    << 1, 2, 6, -1, 1, 6, 5, -1, 8, 9, 6, -1, 5, 8, 6, -1 >>,
    << 0, 3, 8, -1, 0, 8, 5, -1, 0, 5, 6, -1, 3, 5, 8, -1 >>,
    << 0, 1, 2, -1, 0, 1, 6, -1, 0, 6, 5, -1, 1, 5, 6, -1 >>,
    << 5, 6, 8, -1, 3, 5, 8, -1, -1, -1, -1, -1, -1, -1, -1, -1 >>,
    << 4, 5, 6, -1, 4, 6, 7, -1, 8, 9, 7, -1, 6, 8, 7, -1 >>,
    << 0, 3, 8, -1, 5, 6, 3, -1, 7, 3, 6, -1, -1, -1, -1, -1 >>,
    << 0, 1, 2, -1, 4, 7, 5, -1, 0, 5, 1, -1, 7, 5, 4, -1 >>,
    << 1, 2, 3, -1, 4, 7, 5, -1, 8, 3, 5, -1, -1, -1, -1, -1 >>,
    << 1, 2, 6, -1, 1, 6, 7, -1, 8, 9, 7, -1, 1, 8, 7, -1 >>,
    << 8, 9, 7, -1, 1, 8, 7, -1, -1, -1, -1, -1, -1, -1, -1, -1 >>,
    << 0, 1, 2, -1, 0, 1, 3, -1, 4, 7, 3, -1, 1, 4, 3, -1 >>,
    << 2, 3, 8, -1, 4, 7, 8, -1, -1, -1, -1, -1, -1, -1, -1, -1 >>,
    << 9, 10, 11, -1, 7, 8, 4, -1, 10, 8, 4, -1, 11, 7, 8, -1 >>,
    << 11, 10, 9, -1, 11, 9, 0, -1, 11, 0, 3, -1, 9, 3, 0, -1, 7, 8, 4, -1 >>,
    << 0, 1, 2, -1, 9, 10, 11, -1, 1, 9, 0, -1, 2, 10, 9, -1, 7, 8, 4, -1 >>,
    << 1, 2, 3, -1, 9, 10, 11, -1, 7, 8, 4, -1, -1, -1, -1, -1 >>,
    << 1, 2, 11, -1, 1, 11, 9, -1, 7, 8, 4, -1, 2, 8, 11, -1, 9, 4, 8, -1 >>,
    << 1, 2, 11, -1, 1, 11, 9, -1, 0, 3, 4, -1, 2, 3, 11, -1, 9, 0, 3, -1, 7, 8, 4, -1 >>,
    << 0, 1, 2, -1, 0, 1, 9, -1, 0, 9, 11, -1, 1, 11, 9, -1, 7, 8, 4, -1 >>,
    << 1, 2, 3, -1, 1, 3, 9, -1, 1, 9, 11, -1, 3, 11, 9, -1, 7, 8, 4, -1 >>,
    << 4, 5, 6, -1, 7, 8, 4, -1, 9, 10, 11, -1, 5, 8, 4, -1, 6, 7, 8, -1, 9, 10, 11, -1 >>,
    << 11, 10, 9, -1, 4, 5, 6, -1, 0, 3, 9, -1, 5, 3, 9, -1, 6, 11, 3, -1, 4, 0, 3, -1 >>,
    << 0, 1, 2, -1, 4, 5, 6, -1, 9, 10, 11, -1, 1, 9, 0, -1, 2, 10, 9, -1, 5, 8, 4, -1 >>,
    << 1, 2, 3, -1, 4, 5, 6, -1, 9, 10, 11, -1, 8, 7, 3, -1, 5, 8, 3, -1, 6, 7, 5, -1 >>,
    << 1, 2, 11, -1, 1, 11, 9, -1, 4, 5, 6, -1, 2, 5, 11, -1, 9, 4, 5, -1 >>,
    << 1, 2, 11, -1, 1, 11, 9, -1, 3, 0, 8, -1, 2, 0, 11, -1, 9, 3, 0, -1, 5, 4, 6, -1 >>,
    << 0, 1, 2, -1, 0, 1, 9, -1, 0, 9, 11, -1, 1, 11, 9, -1, 3, 4, 5, -1, 6, 0, 3, -1 >>,
    << 1, 2, 3, -1, 1, 3, 9, -1, 1, 9, 11, -1, 3, 11, 9, -1, 4, 5, 6, -1, 8, 7, 0, -1 >>,
    << 4, 5, 6, -1, 7, 8, 4, -1, 10, 11, 1, -1, 5, 8, 4, -1, 6, 7, 8, -1, 10, 11, 1, -1 >>,
    << 4, 5, 6, -1, 7, 8, 4, -1, 3, 0, 10, -1, 5, 8, 4, -1, 6, 7, 8, -1, 0, 10, 3, -1, 11, 1, 10, -1 >>,
    << 0, 1, 2, -1, 0, 1, 3, -1, 4, 5, 6, -1, 7, 8, 3, -1, 5, 8, 3, -1, 6, 7, 5, -1, 10, 11, 0, -1 >>,
    << 1, 2, 3, -1, 4, 5, 6, -1, 7, 8, 3, -1, 10, 11, 1, -1, -1, -1, -1 >>
    >>

Vector3(x, y, z) == [x |-> x, y |-> y, z |-> z]

\* new THREE.Vector3(p[0], p[1], p[2]) for a lattice position p.
CornerVector(p) == Vector3(Num(p[1]), Num(p[2]), Num(p[3]))

\* vertexInterp without its two guards: the bare linear interpolation.
vertexInterpUnguarded(isolevel, p1, p2, valp1, valp2) ==
    LET diff == FSub(valp2, valp1)
        mu   == FDiv(FSub(isolevel, valp1), diff)
    IN  Vector3(FAdd(Num(p1[1]), FMul(mu, Num(p2[1] - p1[1]))),
                FAdd(Num(p1[2]), FMul(mu, Num(p2[2] - p1[2]))),
                FAdd(Num(p1[3]), FMul(mu, Num(p2[3] - p1[3]))))

\* vertexInterp with  mu = (isolevel - valp2) / (valp2 - valp1) : the distance
\* measured from the far end of the edge.
vertexInterpFromFarEnd(isolevel, p1, p2, valp1, valp2) ==
    LET diff == FSub(valp2, valp1)
        mu   == FDiv(FSub(isolevel, valp2), diff)
        x    == FAdd(Num(p1[1]), FMul(mu, Num(p2[1] - p1[1])))
        y    == FAdd(Num(p1[2]), FMul(mu, Num(p2[2] - p1[2])))
        z    == FAdd(Num(p1[3]), FMul(mu, Num(p2[3] - p1[3])))
    IN  IF LtTiny(FAbs(diff)) THEN CornerVector(p1)
        ELSE IF ~IsFinite(x) \/ ~IsFinite(y) \/ ~IsFinite(z) THEN CornerVector(p1)
        ELSE Vector3(x, y, z)

vertexInterp(isolevel, p1, p2, valp1, valp2) ==
    LET diff == FSub(valp2, valp1)
        mu   == FDiv(FSub(isolevel, valp1), diff)
        x    == FAdd(Num(p1[1]), FMul(mu, Num(p2[1] - p1[1])))
        y    == FAdd(Num(p1[2]), FMul(mu, Num(p2[2] - p1[2])))
        z    == FAdd(Num(p1[3]), FMul(mu, Num(p2[3] - p1[3])))
    IN  IF LtTiny(FAbs(diff)) THEN CornerVector(p1)
        ELSE IF ~IsFinite(x) \/ ~IsFinite(y) \/ ~IsFinite(z) THEN CornerVector(p1)
        ELSE Vector3(x, y, z)

\* getVal of run: the sample at lattice position (x, y, z), 0 outside the lattice.
getVal(data, dims, x, y, z) ==
    IF x < 0 \/ y < 0 \/ z < 0 \/ x >= dims[1] \/ y >= dims[2] \/ z >= dims[3] THEN Zero
    ELSE data[x + y * dims[1] + z * dims[1] * dims[2]]

\* The corners p[0..7] of the cube at (x, y, z).
CubeCorners(x, y, z) ==
    << <<x, y, z>>, <<x + 1, y, z>>, <<x + 1, y + 1, z>>, <<x, y + 1, z>>,
       <<x, y, z + 1>>, <<x + 1, y, z + 1>>, <<x + 1, y + 1, z + 1>>, <<x, y + 1, z + 1>> >>

\* The two corners (0-based) that edge e = 0..11 joins, in the order run passes them.
EdgeCorners ==
    << <<0, 1>>, <<1, 2>>, <<2, 3>>, <<3, 0>>, <<4, 5>>, <<5, 6>>, <<6, 7>>, <<7, 4>>,
       <<0, 4>>, <<1, 5>>, <<2, 6>>, <<3, 7>> >>

\* n & (1 << e) is not 0
BitSet(n, e) == (n \div (2 ^ e)) % 2 = 1

\* The cube index with  v[i] <= isolevel  as the test of each corner.
CubeIndexInclusive(v, isolevel) ==
    LET Bit(i) == IF FLe(v[i + 1], isolevel) THEN 2 ^ i ELSE 0
    IN  Bit(0) + Bit(1) + Bit(2) + Bit(3) + Bit(4) + Bit(5) + Bit(6) + Bit(7)

\* The cube index: bit i is set when v[i] < isolevel.
CubeIndex(v, isolevel) ==
    LET Bit(i) == IF FLt(v[i + 1], isolevel) THEN 2 ^ i ELSE 0
    IN  Bit(0) + Bit(1) + Bit(2) + Bit(3) + Bit(4) + Bit(5) + Bit(6) + Bit(7)

\* triTable[cubeindex][i + 1]: the entry after the one the loop asks for.
TriEntryShifted(cubeindex, i) ==
    LET row == triTable[cubeindex + 1]
    IN  IF i + 2 <= Len(row) THEN row[i + 2] ELSE -2

\* triTable[cubeindex][i]; -2 stands for undefined (i past the end of the row).
TriEntry(cubeindex, i) ==
    LET row == triTable[cubeindex + 1]
    IN  IF i + 1 <= Len(row) THEN row[i + 1] ELSE -2

\* vertlist[e]; Null when the entry is null or e is not an index of vertlist.
VertAt(vertlist, e) == IF e \in 0..11 THEN vertlist[e] ELSE Null

\* The triangle loop of run from index i on: the vertices it pushes.  The loop
\* of the source ends at an entry -1; every row of triTable has one at index 3.
\* (Past the end of a row the entry is undefined and the source would not stop:
\* the recursion here ends there.)
RECURSIVE TriangleLoop(_, _, _)
TriangleLoop(cubeindex, vertlist, i) ==
    IF TriEntry(cubeindex, i) = -1 \/ i >= Len(triTable[cubeindex + 1]) THEN << >>
    ELSE LET v1 == VertAt(vertlist, TriEntry(cubeindex, i + 2))
             v2 == VertAt(vertlist, TriEntry(cubeindex, i + 1))
             v3 == VertAt(vertlist, TriEntry(cubeindex, i))
         IN  (IF v1 # Null /\ v2 # Null /\ v3 # Null THEN <<v1, v2, v3>> ELSE << >>)
             \o TriangleLoop(cubeindex, vertlist, i + 3)

\* The value of i at which the triangle loop of run, now at index i, ends: the
\* first i = 0, 3, 6, ... with triTable[cubeindex][i] === -1.  Past the end of
\* the row the entry is undefined, the test  !== -1  stays true and the loop
\* never ends: -1 stands for that.
RECURSIVE TriangleLoopEnd(_, _)
TriangleLoopEnd(cubeindex, i) ==
    IF TriEntry(cubeindex, i) = -1 THEN i
    ELSE IF TriEntry(cubeindex, i) = -2 THEN -1
    ELSE TriangleLoopEnd(cubeindex, i + 3)

\* One iteration of the loops of run: the cube at (x, y, z).
\* [cubeindex, vertlist (Null where no vertex was computed), vertices (pushed),
\*  looped (the triangle loop was entered), loopEnd (where it ended)].
MarchCube(data, dims, isolevel, x, y, z) ==
    LET p == CubeCorners(x, y, z)
        v == [i \in 1..8 |-> getVal(data, dims, p[i][1], p[i][2], p[i][3])]
        cubeindex == CubeIndex(v, isolevel)
        vertlist == [e \in 0..11 |->
                        IF BitSet(edgeTable[cubeindex + 1], e)
                        THEN vertexInterp(isolevel, p[EdgeCorners[e + 1][1] + 1],
                                          p[EdgeCorners[e + 1][2] + 1],
                                          v[EdgeCorners[e + 1][1] + 1],
                                          v[EdgeCorners[e + 1][2] + 1])
                        ELSE Null]
    IN  IF edgeTable[cubeindex + 1] = 0
        THEN [cubeindex |-> cubeindex, vertlist |-> [e \in 0..11 |-> Null],
              vertices |-> << >>, looped |-> FALSE, loopEnd |-> 0]
        ELSE [cubeindex |-> cubeindex, vertlist |-> vertlist,
              vertices |-> TriangleLoop(cubeindex, vertlist, 0),
              looped |-> TRUE, loopEnd |-> TriangleLoopEnd(cubeindex, 0)]

\* The cubes run visits, in order: z outermost, x innermost.
CubeOrder(dims) ==
    LET nx == dims[1] - 1
        ny == dims[2] - 1
        nz == dims[3] - 1
    IN  IF nx <= 0 \/ ny <= 0 \/ nz <= 0 THEN << >>
        ELSE [n \in 1..(nx * ny * nz) |->
                 << (n - 1) % nx, ((n - 1) \div nx) % ny, (n - 1) \div (nx * ny) >>]

\* The vertices pushed by the cubes from the n-th on.
RECURSIVE RunFrom(_, _, _, _, _)
RunFrom(data, dims, isolevel, order, n) ==
    IF n > Len(order) THEN << >>
    ELSE MarchCube(data, dims, isolevel, order[n][1], order[n][2], order[n][3]).vertices
         \o RunFrom(data, dims, isolevel, order, n + 1)

\* marchingCubes.run
run(data, dims, isolevel) == RunFrom(data, dims, isolevel, CubeOrder(dims), 1)

(***************************************************************************)
(* ThreeDManager                                                           *)
(*                                                                         *)
(* A manager is a record of what its scene holds: the numbers of soil      *)
(* layer objects, pipe groups, pipe labels and axes objects, the list of   *)
(* isosurface meshes, and the animation frame requested (Null: none).      *)
(***************************************************************************)
\* The lattice of buildScene has gridSize = 40 samples a side; the model's has MCDim.
MCDim == 2

GridDims == << MCDim, MCDim, MCDim >>

\* new ThreeDManager(webglCanvas)
NewThreeDManager ==
    [ soilLayerObjects |-> 0, pipeObjects |-> 0, pipeLabels |-> 0,
      isoSurfaceObjects |-> << >>, axesObjects |-> 0, animationFrameId |-> Null ]

\* The mesh of one isosurface: lines 1664-1692 add one when marchingCubes.run
\* returned vertices.
IsoSurfaceMeshes(iso, vertices) ==
    IF Len(vertices) > 0 THEN << [isoId |-> iso.id, vertexCount |-> Len(vertices)] >>
    ELSE << >>

\* The body of the try block for one isosurface (lines 1660-1692).  fault = "throw":
\* marchingCubes.run or the geometry code raises an exception; scene.add and push
\* are the last statements of the body, so nothing has been added by then.
\* [threw, meshes (the meshes added: none or one)].
IsoSurfaceBody(iso, scalarField, dims, fault) ==
    IF fault = "throw" THEN [threw |-> TRUE, meshes |-> << >>]
    ELSE [ threw  |-> FALSE,
           meshes |-> IsoSurfaceMeshes(iso, run(scalarField, dims, FtoC(iso.temp))) ]

\* One iteration with the try around the whole loop instead of inside it: the
\* first exception ends the loop.
IsoSurfaceIterationAborting(body, rest) ==
    IF body.threw THEN [meshes |-> << >>, caught |-> 1]
    ELSE [meshes |-> body.meshes \o rest.meshes, caught |-> rest.caught]

\* One iteration of the loop: try { body } catch(e) { console.error(...) }, then
\* the rest of the loop.
IsoSurfaceIteration(body, rest) ==
    [ meshes |-> body.meshes \o rest.meshes,
      caught |-> rest.caught + (IF body.threw THEN 1 ELSE 0) ]

\* activeIsoSurfaces.forEach(iso => { try { ... } catch(e) { console.error(...) } })
\* from the i-th active isosurface on: [meshes added, number of exceptions caught].
RECURSIVE IsoSurfaceLoop(_, _, _, _, _)
IsoSurfaceLoop(active, scalarField, dims, faults, i) ==
    IF i > Len(active) THEN [meshes |-> << >>, caught |-> 0]
    ELSE IsoSurfaceIteration(IsoSurfaceBody(active[i], scalarField, dims, faults[i]),
                             IsoSurfaceLoop(active, scalarField, dims, faults, i + 1))

\* isoSurfacesData.filter(iso => iso.enabled)
ActiveIsoSurfaces(isoSurfacesData) ==
    FilterIdx(isoSurfacesData,
              { i \in 1..Len(isoSurfacesData) : isoSurfacesData[i].enabled }, 1)

\* The manager's scene after buildScene and what the call did, from the active
\* isosurfaces and the outcome of the isosurface loop.
SceneAfterLoop(sceneData, active, env, loop) ==
    [ manager |->
        [ soilLayerObjects  |-> 2 * Len(sceneData.layers),
          pipeObjects       |-> Len(sceneData.pipes),
          pipeLabels        |-> Len(sceneData.pipes),
          isoSurfaceObjects |-> loop.meshes,
          axesObjects       |-> 4,
          animationFrameId  |-> [k |-> "frame"] ],
      log |->
        [ active |-> active, field |-> env.field, faults |-> env.faults,
          isoSurfaceObjects |-> loop.meshes, caught |-> loop.caught,
          setupAxes |-> TRUE, animate |-> TRUE ] ]

\* buildScene from the active isosurfaces on: the loop runs when there is one.
BuiltScene(sceneData, active, env) ==
    SceneAfterLoop(sceneData, active, env,
                   IF Len(active) > 0
                   THEN IsoSurfaceLoop(active, env.field, GridDims, env.faults, 1)
                   ELSE [meshes |-> << >>, caught |-> 0])

\* buildScene(sceneData, isoSurfacesData) on a manager.  env.field is the lattice
\* the sampling loop fills (the samples of calculateTemperatureAtPoint over the
\* world box are taken as given), env.faults[i] the fault of the i-th active
\* isosurface.  [manager (after), log (what this call did)].
buildScene(manager, sceneData, isoSurfacesData, env) ==
    BuiltScene(sceneData, ActiveIsoSurfaces(isoSurfacesData), env)

\* The animate callbacks told apart in a count: MaxFrames stands for MaxFrames or more.
MaxFrames == 3

SaturatedFrames(n) == IF n < MaxFrames THEN n ELSE MaxFrames

\* The callbacks requestAnimationFrame holds before any manager exists, and the
\* ones the last browser frame ran.
NoFrames ==
    [ ofManager |-> 0, ofDestroyed |-> 0,
      lastFrame |-> [ofManager |-> 0, ofDestroyed |-> 0] ]

\* animate() as buildScene calls it (line 1700): requestAnimationFrame schedules
\* one more callback bound to the manager, and animationFrameId names it.
animate(frames) ==
    [frames EXCEPT !.ofManager = SaturatedFrames(frames.ofManager + 1)]

\* destroy(): cancelAnimationFrame takes the callback animationFrameId names, the
\* last one requested, out of the schedule; the manager's other callbacks stay
\* scheduled, bound to the destroyed manager.
destroy(manager, frames) ==
    LET cancelled == IF manager.animationFrameId # Null /\ frames.ofManager > 0
                     THEN 1 ELSE 0
    IN  [frames EXCEPT !.ofManager = 0,
                       !.ofDestroyed = SaturatedFrames(frames.ofDestroyed
                                                       + frames.ofManager - cancelled)]

\* The scheduled animate callbacks after handleViewModeChange with the radio
\* button on mode: threeDManager?.destroy() in 2D, buildScene's animate() in 3D
\* with data.
FramesAfterViewModeChange(mode, data, manager, frames) ==
    IF mode = "2d"
    THEN IF manager = Null THEN frames ELSE destroy(manager, frames)
    ELSE IF data # Null THEN animate(frames) ELSE frames

\* The result of handleViewModeChange in 3D mode with data, from what buildScene did.
ViewBuilt(built) == [mode |-> "3d", manager |-> built.manager, log |-> built.log]

\* handleViewModeChange with the radio button on mode:
\* [mode, manager, log] = currentViewMode, threeDManager and what buildScene did
\* to the manager's scene (prev when it was not called, Null when the manager is
\* destroyed).
ViewModeChange(mode, data, manager, isoList, env, prev) ==
    IF mode = "2d"
    THEN [mode |-> "2d", manager |-> Null, log |-> Null]
    ELSE LET m == IF manager = Null THEN NewThreeDManager ELSE manager
         IN  IF data # Null
             THEN ViewBuilt(buildScene(m, data.sceneData, isoList, env))
             ELSE [mode |-> "3d", manager |-> m, log |-> prev]

(***************************************************************************)
(* State                                                                   *)
(***************************************************************************)
VARIABLES
    pipeRows,                \* the .pipe-row elements of pipeList, in document order
    soilRows,                \* the .soil-layer-row elements of soilLayersList
    soilTempInput,           \* parseFloat(soilTempInput.value)
    pipeIdCounter,           \* let pipeIdCounter
    currentCalculationData,  \* let currentCalculationData (Null or a CalculationData)
    errorShown,              \* errorContainer.style.display = 'block'
    currentViewMode,         \* let currentViewMode (and the checked view-mode radio)
    threeDManager,           \* let threeDManager (Null or a manager)
    isoSurfaces,             \* let isoSurfaces (one entry per isosurface row)
    isoSurfaceIdCounter,     \* let isoSurfaceIdCounter
    isoSurfaceRows,          \* the .isosurface-row elements of isosurfaceList: id and inputs
    isotherms,               \* let isotherms
    isothermIdCounter,       \* let isothermIdCounter
    isothermRows,            \* the .isotherm-row elements of isothermList: id and inputs
    scenarioFile,            \* the file saveScenario wrote last (Null: none)
    solver,                  \* the locals of a running calculateTemperatures (Null: none)
    submitted,               \* history: the form as the last handleCalculate read it
    probe,                   \* history: the last calculateTemperatureAtPoint call
    callInput,               \* the inputs of a direct call of a function (Null: none)
    lastCall,                \* history: the last direct call of a function and its result
    edits,                   \* history: the number of row edits of the session
    lastBuild,               \* history: what the last buildScene did to the manager's scene
    animationFrames,         \* the animate callbacks requestAnimationFrame holds
    mcInput,                 \* the arguments of a marchingCubes call (Null: none)
    mcOutput                 \* history: the last marchingCubes call and its result

formVars == <<pipeRows, soilRows, soilTempInput, pipeIdCounter>>

calcVars == <<currentCalculationData, errorShown, solver, submitted>>

viewVars == <<currentViewMode, threeDManager, lastBuild, animationFrames>>

isoVars == <<isoSurfaces, isoSurfaceIdCounter, isoSurfaceRows,
            isotherms, isothermIdCounter, isothermRows>>

fileVars == <<scenarioFile>>

mcVars == <<mcInput, mcOutput>>

callVars == <<callInput, lastCall>>

vars == <<pipeRows, soilRows, soilTempInput, pipeIdCounter, currentCalculationData,
          errorShown, currentViewMode, threeDManager, isoSurfaces, isoSurfaceIdCounter,
          isoSurfaceRows, isotherms, isothermIdCounter, isothermRows, scenarioFile,
          solver, submitted, probe, callInput, lastCall, edits, lastBuild, animationFrames,
          mcInput, mcOutput>>

(***************************************************************************)
(* Inputs                                                                  *)
(***************************************************************************)
\* The longest pipe list and soil-layer list the buttons build, the longest
\* session of row edits, and the largest number of isotherm or isosurface rows
\* the Add buttons make.
MaxPipes == 3

MaxLayers == 2

MaxEdits == 2

MaxIso == 2

\* A pipe row as typed: lengths in ft (x, y, z) and in (od, ...), temp in degF.
PipeRow(role, orientation, x, y, z, temp, od, thickness, ins, bed, k_pipe, k_ins, k_bed) ==
    [ role |-> role, orientation |-> orientation, x |-> x, y |-> y, z |-> z,
      temp |-> temp, od |-> od, thickness |-> thickness, ins |-> ins, bed |-> bed,
      k_pipe |-> k_pipe, k_ins |-> k_ins, k_bed |-> k_bed ]

\* Bare steel source, 392 degF (200 degC), 8 in, 4 ft deep.
SourceBare ==
    PipeRow("heat_source", "parallel", Zero, Zero, Num(4), Num(392),
            Num(8), Fin(5000), Zero, Zero, Num(54), Zero, Zero)

\* Insulated and bedded source, 212 degF (100 degC), 4 in, 3 ft deep, 2 ft to the left.
SourceInsulated ==
    PipeRow("heat_source", "parallel", Num(-2), Zero, Num(3), Num(212),
            Num(4), Fin(2500), Num(1), Num(2), Num(54), Fin(500), Fin(3500))

\* Crossing source whose diameter is typed as 0, 212 degF, 3 ft deep.
SourceThin ==
    PipeRow("heat_source", "perpendicular", Zero, Zero, Num(3), Num(212),
            Zero, Zero, Zero, Zero, Num(54), Zero, Zero)

\* Source whose temperature field is empty, 4 in, 4 ft deep, 2 ft to the right.
SourceNoTemp ==
    PipeRow("heat_source", "parallel", Num(2), Zero, Num(4), NaN,
            Num(4), Fin(2500), Zero, Zero, Num(54), Zero, Zero)

\* Affected pipe, 4 in, 3 ft deep, 2 ft to the right.
AffectedPlain ==
    PipeRow("affected_pipe", "parallel", Num(2), Zero, Num(3), NaN,
            Num(4), Fin(2500), Zero, Zero, Num(54), Zero, Zero)

\* Affected pipe whose depth equals its radius: 24 in pipe, 1 ft deep, crossing.
AffectedAtSurface ==
    PipeRow("affected_pipe", "perpendicular", Zero, Num(1), Num(1), NaN,
            Num(24), Fin(5000), Zero, Zero, Num(54), Zero, Zero)

\* Affected pipe shallower than its radius: 8 in pipe at depth 0.
AffectedTooShallow ==
    PipeRow("affected_pipe", "parallel", Zero, Zero, Zero, NaN,
            Num(8), Fin(5000), Zero, Zero, Num(54), Zero, Zero)

\* Source typed with depth 0 and diameter 0.
SourceAtGrade ==
    PipeRow("heat_source", "parallel", Zero, Zero, Zero, Num(212),
            Zero, Zero, Zero, Zero, Num(54), Zero, Zero)

\* Source whose insulation thickness is typed as -1 in: 8 in pipe, 4 ft deep.
SourceNegativeInsulation ==
    PipeRow("heat_source", "parallel", Zero, Zero, Num(4), Num(212),
            Num(8), Fin(5000), Num(-1), Zero, Num(54), Fin(500), Zero)

\* The rows a user types, in the order they are entered in a form.
PipeInputSeq == << SourceBare, SourceInsulated, SourceThin, SourceNoTemp,
                   AffectedPlain, AffectedAtSurface, AffectedTooShallow >>

PipeInputs == { PipeInputSeq[i] : i \in 1..Len(PipeInputSeq) }

\* Soil rows: conductivity (W/m-K) and thickness (ft).
SoilMoist == [k |-> Fin(15000), thickness |-> Fin(35000)]

SoilDry == [k |-> Fin(5000), thickness |-> Num(5)]

\* A layer of a custom material saved with conductivity 0, 10 ft thick.
SoilZeroK == [k |-> Zero, thickness |-> Num(10)]

SoilInputSeq == << SoilMoist, SoilDry >>

SoilInputs == { SoilInputSeq[i] : i \in 1..Len(SoilInputSeq) }

\* Forms <<pipe rows, soil rows>> with one source whose total resistance is not
\* positive: NaN, negative, zero.
DegenerateForms ==
    { << <<SourceAtGrade>>, <<SoilMoist>> >>,
      << <<SourceNegativeInsulation>>, <<SoilMoist>> >>,
      << <<SourceThin>>, <<SoilZeroK>> >> }

\* Soil temperature field: 59 degF (15 degC).
SoilTempInputs == { Num(59) }

\* Query points <<x, z>> (m): above ground, on the ground, on the centrelines of
\* SourceBare, SourceInsulated and AffectedPlain, in the bedding of SourceInsulated,
\* in the soil.
ProbePoints ==
    { << Zero, Fin(-5000) >>, << Fin(5000), Fin(-1) >>, << Zero, Zero >>,
      << Zero, Fin(12192) >>, << Fin(-6096), Fin(9144) >>,
      << Fin(6096), Fin(9144) >>,
      << Fin(-5096), Fin(9144) >>, << Fin(5000), Fin(10144) >> }

\* The rows and query points of the sessions that follow calculateTemperatures
\* statement by statement: on the centreline of SourceBare and in the soil.
SolveInputSeq == << SourceBare, SourceInsulated, AffectedPlain, AffectedAtSurface >>

SolveProbePoints == { << Zero, Fin(12192) >>, << Fin(5000), Fin(10144) >> }

\* The sub-sequences of s with at most n elements.
SubSeqs(s, n) ==
    { FilterIdx(s, keep, 1) : keep \in { I \in SUBSET (1..Len(s)) : Cardinality(I) <= n } }

\* The prefixes of s with at most n elements.
Prefixes(s, n) == { SubSeq(s, 1, m) : m \in 0..(IF n < Len(s) THEN n ELSE Len(s)) }

\* The rows addPipe creates, in order, from a cleared form: ids 1, 2, ...
WithIds(rows) == [i \in 1..Len(rows) |-> [id |-> i] @@ rows[i]]

\* A lattice whose sample at (x, y, z) is lo when the parity class
\* (x % 2) + 2 (y % 2) + 4 (z % 2) is in pattern, and hi otherwise.
FieldFromPattern(pattern, lo, hi, dims) ==
    [ n \in 0..(dims[1] * dims[2] * dims[3] - 1) |->
        LET x == n % dims[1]
            y == (n \div dims[1]) % dims[2]
            z == n \div (dims[1] * dims[2])
        IN  IF ((x % 2) + 2 * (y % 2) + 4 * (z % 2)) \in pattern THEN lo ELSE hi ]

\* Samples for marchingCubes.run (degC): below and not below the isolevel 20
\* (the isolevel itself is not below it).
MCLow == { Num(10), NInf }

MCHigh == { Num(30), Num(20), PInf, NaN }

MCIso == { Num(20) }

MCInputs ==
    { [ data |-> FieldFromPattern(pattern, lo, hi, GridDims), dims |-> GridDims,
        isolevel |-> iso ] :
      pattern \in SUBSET (0..7), lo \in MCLow, hi \in MCHigh, iso \in MCIso }

\* Lattices buildScene samples: 10 degC at two opposite corners of each cube's
\* bottom face and 30 degC elsewhere (a surface at 73 degF, none at 212 degF).
ScenePatterns == { {0, 3} }

SceneFields == { FieldFromPattern(pattern, Num(10), Num(30), GridDims) :
                 pattern \in ScenePatterns }

\* Isosurface temperatures typed (degF): 73 (the default) and 212.
IsoTempInputs == { Num(73), Num(212) }

\* The pipe rows typed in a session that saves and loads scenarios.
SessionPipeInputs == { AffectedPlain }

\* The temperature typed into an isotherm or isosurface row of a session that
\* saves and loads scenarios (degF).
IsoRowTemps == { Num(212) }

\* What can happen in the try block of one isosurface.
Faults == { "none", "throw" }

\* What a buildScene call meets: the sampled lattice and the fault of each active
\* isosurface.  No lattice is sampled when no isosurface is active.
SceneEnvs(isoList) ==
    LET n == Len(ActiveIsoSurfaces(isoList))
    IN  IF n = 0 THEN { [field |-> Null, faults |-> << >>] }
        ELSE { [field |-> f, faults |-> q] : f \in SceneFields, q \in [1..n -> Faults] }

\* The environments of a handler that calls buildScene only in 3D mode with data.
EnvsFor(mode, data, isoList) ==
    IF mode = "3d" /\ data # Null THEN SceneEnvs(isoList)
    ELSE { [field |-> Null, faults |-> << >>] }

(***************************************************************************)
(* Scenario files and the example                                          *)
(*                                                                         *)
(* A scenario is what saveScenario writes and what loadScenario and        *)
(* handleLoadExample hand to addSoilLayer, addPipe, addIsotherm and        *)
(* addIsoSurface: lengths in m, temperatures of pipes in degC.  An id of 0 *)
(* stands for an absent id (both are falsy in  data?.id || ++counter).     *)
(* customMaterials is empty: the selects offer MATERIAL_PRESETS.           *)
(***************************************************************************)
mToFt(m) == FDiv(m, Fin(FT_TO_M))

mToIn(m) == FDiv(m, Fin(IN_TO_M))

CtoF(c) == FAdd(FDiv(FMul(c, Num(9)), Num(5)), Num(32))

\* parseFloat(a.toFixed(digits)) for digits <= 4: a rounded to that many decimals.
toFixed(a, digits) ==
    IF a.k # "fin" THEN a
    ELSE LET unit == 10 ^ (4 - digits)
         IN  Fin(Sgn(a.v) * RoundDiv(Abs(a.v), unit) * unit)

\* The conductivities the material selects offer (MATERIAL_PRESETS).
SoilOptions == { Fin(25000), Fin(20000), Fin(15000), Fin(10000), Fin(7500), Fin(5000),
                 Fin(3500), Fin(2700) }

PipeOptions == { Fin(540000), Fin(160000), Fin(4500) }

InsulationOptions == { Zero, Fin(500), Fin(400), Fin(250) }

BeddingOptions == { Zero, Fin(3500), Fin(2700) }

\* select.value = k.toString(), then parseFloat(select.value): a select to which
\* a value is assigned that none of its options has is left with the value "".
SelectValue(k, options) == IF k \in options THEN k ELSE NaN

\* The inputs of the row addSoilLayer(data) creates.
SoilRowOf(data) ==
    [ k |-> SelectValue(data.k, SoilOptions),
      thickness |-> toFixed(mToFt(data.thickness), 2) ]

\* The inputs of the row addPipe(data) creates.  The temperature input of a pipe
\* without data.temp keeps the template's text, which is not read for an
\* affected pipe.
PipeRowOf(data) ==
    PipeRow(data.role, data.orientation,
            toFixed(mToFt(OrZero(data.x)), 2), toFixed(mToFt(OrZero(data.y)), 2),
            toFixed(mToFt(OrZero(data.z)), 2),
            IF data.temp # Undefined THEN toFixed(CtoF(data.temp), 1) ELSE NaN,
            toFixed(mToIn(data.od), 3), toFixed(mToIn(data.thickness), 3),
            toFixed(mToIn(data.ins_thickness), 2), toFixed(mToIn(data.bed_thickness), 2),
            SelectValue(data.k_pipe, PipeOptions),
            SelectValue(data.k_ins, InsulationOptions),
            SelectValue(data.k_bedding, BeddingOptions))

\* loadedPipes.forEach(p => addPipe(p)) on a cleared list: addPipe numbers the
\* rows with ++pipeIdCounter and does not read data.id.
PipeRowsOf(pipes) == [i \in 1..Len(pipes) |-> [id |-> i] @@ PipeRowOf(pipes[i])]

\* The isotherm rows (the inputs of each row, with the id of its closure), the
\* isotherms list and isothermIdCounter after clearInputs.
NoIsoRows == [rows |-> << >>, list |-> << >>, counter |-> 0]

\* The id of the row addIsotherm / addIsoSurface creates:  data?.id || ++counter.
NewIsoId(data, counter) == IF data.id # 0 THEN data.id ELSE counter + 1

NewIsoCounter(data, counter) == IF data.id # 0 THEN counter ELSE counter + 1

\* The id taken from the counter whatever data.id is.
NewIsoIdFromCounter(data, counter) == counter + 1

\* addIsotherm(data): a row with id  data?.id || ++isothermIdCounter  and an
\* entry pushed on the isotherms list.
addIsotherm(st, data) ==
    LET id == NewIsoId(data, st.counter)
        entry == [id |-> id, temp |-> data.temp, enabled |-> data.enabled]
    IN  [ rows    |-> Append(st.rows, entry),
          list    |-> Append(st.list, entry),
          counter |-> NewIsoCounter(data, st.counter) ]

\* addIsoSurface(data): as addIsotherm, but the entry is pushed only when the
\* list has none with the id.
addIsoSurface(st, data) ==
    LET id == NewIsoId(data, st.counter)
        entry == [id |-> id, temp |-> data.temp, enabled |-> data.enabled]
    IN  [ rows    |-> Append(st.rows, entry),
          list    |-> IF \E i \in 1..Len(st.list) : st.list[i].id = id THEN st.list
                      ELSE Append(st.list, entry),
          counter |-> NewIsoCounter(data, st.counter) ]

\* loadedIsotherms.forEach(iso => addIsotherm(iso)) from the i-th entry on.
RECURSIVE AddIsotherms(_, _, _)
AddIsotherms(st, data, i) ==
    IF i > Len(data) THEN st ELSE AddIsotherms(addIsotherm(st, data[i]), data, i + 1)

RECURSIVE AddIsoSurfaces(_, _, _)
AddIsoSurfaces(st, data, i) ==
    IF i > Len(data) THEN st ELSE AddIsoSurfaces(addIsoSurface(st, data[i]), data, i + 1)

\* updateState of a row with id id whose inputs read temp and enabled: the first
\* entry with the id is overwritten, or an entry is pushed when there is none.
UpdatedIsoList(list, id, temp, enabled) ==
    LET newData == [id |-> id, temp |-> OrZero(temp), enabled |-> enabled]
        existing == { i \in 1..Len(list) : list[i].id = id }
    IN  IF existing # {}
        THEN [list EXCEPT ![CHOOSE i \in existing : \A j \in existing : i <= j] = newData]
        ELSE Append(list, newData)

\* isotherms.filter(iso => iso.id !== id)
WithoutIsoId(list, id) == FilterIdx(list, { j \in 1..Len(list) : list[j].id # id }, 1)

\* A sequence without its i-th element (row.remove()).
WithoutIndex(s, i) == SubSeq(s, 1, i - 1) \o SubSeq(s, i + 1, Len(s))

\* What addIsotherm() and addIsoSurface() are called with by the Add buttons:
\* no data, so the default temperature (isoTemp: 73) and a checked box.
NoIsoData == [id |-> 0, temp |-> Num(73), enabled |-> TRUE]

\* A pipe of a scenario file: the fields saveScenario copies (no id).
SavedPipe(p) == [f \in (DOMAIN p) \ {"id"} |-> p[f]]

\* The scenario saveScenario writes from the form and the two lists.
ScenarioOf(rows, layerRows, soilTemp, isothermList, isoSurfaceList) ==
    LET layers == getSoilLayers(layerRows)
        pipes  == getPipes(rows)
    IN  [ soilTemp    |-> soilTemp,
          soilLayers  |-> [i \in 1..Len(layers) |->
                             [k |-> layers[i].k, thickness |-> layers[i].thickness]],
          pipes       |-> [i \in 1..Len(pipes) |-> SavedPipe(pipes[i])],
          isotherms   |-> isothermList,
          isoSurfaces |-> isoSurfaceList ]

\* A pipe as handleLoadExample passes it to addPipe.
ExamplePipe(role, orientation, x, z, temp, od, thickness, k_pipe, ins, k_ins, bed, k_bed) ==
    [ role |-> role, orientation |-> orientation, temp |-> temp,
      x |-> ftToM(x), y |-> Zero, z |-> ftToM(z),
      od |-> inToM(od), thickness |-> inToM(thickness),
      ins_thickness |-> inToM(ins), bed_thickness |-> inToM(bed),
      k_pipe |-> k_pipe, k_ins |-> k_ins, k_bedding |-> k_bed ]

\* What handleLoadExample fills in (lines 1995-2037).
ExampleScenario ==
    [ soilTemp    |-> Num(60),
      soilLayers  |-> << [k |-> Fin(15000), thickness |-> ftToM(Num(10))],
                         [k |-> Fin(22000), thickness |-> ftToM(Num(20))] >>,
      pipes       |->
        << ExamplePipe("heat_source", "parallel", Num(-10), Num(5), FtoC(Num(450)),
                       Fin(86250), Fin(3220), Num(54), Num(2), Fin(500), Num(6), Fin(3500)),
           ExamplePipe("affected_pipe", "parallel", Zero, Num(6), Undefined,
                       Fin(127500), Fin(4060), Num(54), Zero, Zero, Num(6), Fin(3500)),
           ExamplePipe("heat_source", "parallel", Num(10), Num(7), FtoC(Num(300)),
                       Fin(66250), Fin(2800), Num(54), Num(1), Fin(400), Num(6), Fin(3500)),
           ExamplePipe("heat_source", "perpendicular", Zero, Num(15), FtoC(Num(200)),
                       Fin(45000), Fin(2370), Num(54), Zero, Zero, Zero, Zero) >>,
      isotherms   |-> << [id |-> 0, temp |-> Num(100), enabled |-> TRUE],
                         [id |-> 0, temp |-> Num(150), enabled |-> TRUE],
                         [id |-> 0, temp |-> Num(200), enabled |-> TRUE] >>,
      isoSurfaces |-> << [id |-> 0, temp |-> Num(90), enabled |-> TRUE],
                         [id |-> 0, temp |-> Num(120), enabled |-> TRUE] >> ]

(***************************************************************************)
(* Handlers                                                                *)
(***************************************************************************)
\* The id of a new row numbered by the rows in the list:  pipeList.children.length + 1.
NewPipeIdFromRows(rows, counter) == Len(rows) + 1

\* newPipe.dataset.id = (++pipeIdCounter).toString()
NewPipeId(rows, counter) == counter + 1

\* addPipe, then the user's typing: a new row with the next id.
AddPipe(data) ==
    /\ Len(pipeRows) < MaxPipes
    /\ edits < MaxEdits
    /\ edits' = edits + 1
    /\ pipeIdCounter' = pipeIdCounter + 1
    /\ pipeRows' = Append(pipeRows, [id |-> NewPipeId(pipeRows, pipeIdCounter)] @@ data)
    /\ UNCHANGED <<soilRows, soilTempInput, calcVars, viewVars, isoVars, fileVars, probe, callVars, mcVars>>

\* The row's remove button: newPipe.remove().
RemovePipe(i) ==
    /\ i \in 1..Len(pipeRows)
    /\ edits < MaxEdits
    /\ edits' = edits + 1
    /\ pipeRows' = SubSeq(pipeRows, 1, i - 1) \o SubSeq(pipeRows, i + 1, Len(pipeRows))
    /\ UNCHANGED <<soilRows, soilTempInput, pipeIdCounter, calcVars, viewVars, isoVars, fileVars,
                   probe, callVars, mcVars>>

\* addSoilLayer, then the user's typing.
AddSoilLayer(data) ==
    /\ Len(soilRows) < MaxLayers
    /\ edits < MaxEdits
    /\ edits' = edits + 1
    /\ soilRows' = Append(soilRows, data)
    /\ UNCHANGED <<pipeRows, soilTempInput, pipeIdCounter, calcVars, viewVars, isoVars, fileVars,
                   probe, callVars, mcVars>>

\* The layer's remove button: newLayer.remove().
RemoveSoilLayer(i) ==
    /\ i \in 1..Len(soilRows)
    /\ edits < MaxEdits
    /\ edits' = edits + 1
    /\ soilRows' = SubSeq(soilRows, 1, i - 1) \o SubSeq(soilRows, i + 1, Len(soilRows))
    /\ UNCHANGED <<pipeRows, soilTempInput, pipeIdCounter, calcVars, viewVars, isoVars, fileVars,
                   probe, callVars, mcVars>>

\* handleViewModeChange with the radio button on mode, on the page's state.
ApplyViewModeChange(mode, data, isoList, env) ==
    \E view \in { ViewModeChange(mode, data, threeDManager, isoList, env, lastBuild) } :
        /\ currentViewMode' = view.mode
        /\ threeDManager' = view.manager
        /\ lastBuild' = view.log
        /\ animationFrames' = FramesAfterViewModeChange(mode, data, threeDManager,
                                                        animationFrames)

\* The outcome of handleCalculate on a form: what it leaves in
\* currentCalculationData (cur: the value before), errorShown and submitted.
CalculateOutcome(rows, layerRows, soilTemp, cur) ==
    LET hasError == \E i \in 1..Len(rows) : ~validatePipeRow(rows[i])
        T_soil_C == FtoC(OrZero(soilTemp))
    IN  IF hasError
        THEN [ data  |-> cur, error |-> TRUE, outcome |-> "rejected" ]
        ELSE [ data  |-> renderResultsTable(
                            calculateTemperatures(getPipes(rows), getSoilLayers(layerRows),
                                                  T_soil_C)),
               error |-> FALSE, outcome |-> "calculated" ]

\* handleCalculate on a form with the given rows; after a calculation it calls
\* renderResultsTable and handleViewModeChange.
CalculateForm(rows, layerRows, soilTemp, isoList) ==
    \E out \in { CalculateOutcome(rows, layerRows, soilTemp, currentCalculationData) } :
        /\ currentCalculationData' = out.data
        /\ errorShown' = out.error
        /\ submitted' = [ outcome |-> out.outcome, pipeRows |-> rows,
                          soilRows |-> layerRows ]
        /\ IF out.outcome = "calculated"
           THEN \E env \in EnvsFor(currentViewMode, out.data, isoList) :
                   ApplyViewModeChange(currentViewMode, out.data, isoList, env)
           ELSE UNCHANGED viewVars

\* The Calculate button.
HandleCalculate ==
    /\ CalculateForm(pipeRows, soilRows, soilTempInput, isoSurfaces)
    /\ UNCHANGED <<formVars, isoVars, fileVars, solver, probe, callVars, edits, mcVars>>

\* handleCalculate up to its call of calculateTemperatures (lines 2053-2081): a
\* form with an error is rejected, otherwise calculateTemperatures is entered.
StartCalculate ==
    /\ solver = Null
    /\ IF \E i \in 1..Len(pipeRows) : ~validatePipeRow(pipeRows[i])
       THEN /\ errorShown' = TRUE
            /\ submitted' = [ outcome |-> "rejected", pipeRows |-> pipeRows,
                              soilRows |-> soilRows ]
            /\ UNCHANGED solver
       ELSE /\ errorShown' = FALSE
            /\ solver' = NewSolver(getPipes(pipeRows), getSoilLayers(soilRows),
                                   FtoC(OrZero(soilTempInput)))
            /\ UNCHANGED submitted
    /\ UNCHANGED <<formVars, currentCalculationData, viewVars, isoVars, fileVars, probe, callVars, edits, mcVars>>

\* The next statement of the running calculateTemperatures.
SolverStep ==
    /\ solver # Null
    /\ solver.pc <= Len(solver.program)
    /\ solver' = SolverExecute(solver)
    /\ UNCHANGED <<formVars, currentCalculationData, errorShown, submitted, viewVars,
                   isoVars, fileVars, probe, callVars, edits, mcVars>>

\* calculateTemperatures returns and handleCalculate goes on (lines 2081-2086):
\* currentCalculationData is assigned, then renderResultsTable and
\* handleViewModeChange.
FinishCalculate ==
    /\ solver # Null
    /\ solver.pc > Len(solver.program)
    /\ \E data \in { renderResultsTable(SolverResult(solver)) } :
          /\ currentCalculationData' = data
          /\ \E env \in EnvsFor(currentViewMode, data, isoSurfaces) :
                ApplyViewModeChange(currentViewMode, data, isoSurfaces, env)
    /\ solver' = Null
    /\ submitted' = [ outcome |-> "calculated", pipeRows |-> pipeRows, soilRows |-> soilRows ]
    /\ UNCHANGED <<formVars, errorShown, isoVars, fileVars, probe, callVars, edits, mcVars>>

\* What a call calculateTemperatureAtPoint(x, z, sceneData) is recorded as.
ProbeRecord(x, z, sceneData, eval) ==
    [ x |-> x, z |-> z, scene |-> sceneData, eval |-> eval, value |-> eval.temp ]

ProbeOf(x, z, sceneData) == ProbeRecord(x, z, sceneData, PointEvaluation(x, z, sceneData))

\* showTooltip (mousemove over the canvas) at the world point (x, z).
ShowTooltip(x, z) ==
    /\ currentCalculationData # Null
    /\ ~FLt(z, Zero)
    /\ probe' = ProbeOf(x, z, currentCalculationData.sceneData)
    /\ UNCHANGED <<formVars, calcVars, viewVars, isoVars, fileVars, callVars, edits, mcVars>>

\* A direct call calculateTemperatureAtPoint(x, z, sceneData) on the current scene.
EvaluatePoint(x, z) ==
    /\ currentCalculationData # Null
    /\ probe' = ProbeOf(x, z, currentCalculationData.sceneData)
    /\ UNCHANGED <<formVars, calcVars, viewVars, isoVars, fileVars, callVars, edits, mcVars>>

\* A view-mode radio button is chosen: handleViewModeChange.
SelectViewMode(mode) ==
    /\ mode # currentViewMode
    /\ \E env \in EnvsFor(mode, currentCalculationData, isoSurfaces) :
          ApplyViewModeChange(mode, currentCalculationData, isoSurfaces, env)
    /\ UNCHANGED <<formVars, calcVars, isoVars, fileVars, probe, callVars, edits, mcVars>>

\* The browser runs a frame: every scheduled animate callback runs, requests the
\* next frame as its first statement (line 1759) and renders.
AnimationFrame ==
    /\ animationFrames.ofManager + animationFrames.ofDestroyed > 0
    /\ animationFrames' =
          [animationFrames EXCEPT !.lastFrame =
              [ ofManager   |-> animationFrames.ofManager,
                ofDestroyed |-> animationFrames.ofDestroyed ]]
    /\ UNCHANGED <<formVars, calcVars, currentViewMode, threeDManager, lastBuild,
                   isoVars, fileVars, probe, callVars, edits, mcVars>>

\* The scene after a change of the isosurface list (updateState, remove button):
\* buildScene when there is data and the view is 3D.
RebuildAfter(isoList) ==
    \E env \in EnvsFor(currentViewMode, currentCalculationData, isoList) :
       IF currentCalculationData # Null /\ currentViewMode = "3d" /\ threeDManager # Null
       THEN \E built \in { buildScene(threeDManager, currentCalculationData.sceneData,
                                      isoList, env) } :
               /\ threeDManager' = built.manager
               /\ lastBuild' = built.log
               /\ animationFrames' = animate(animationFrames)
               /\ UNCHANGED currentViewMode
       ELSE UNCHANGED viewVars

\* addIsoSurface() (the Add button): a row with the default temperature, enabled.
AddIsoSurface ==
    /\ isoSurfaceIdCounter < MaxIso
    /\ Len(isoSurfaceRows) < MaxIso
    /\ \E st \in { addIsoSurface([ rows |-> isoSurfaceRows, list |-> isoSurfaces,
                                   counter |-> isoSurfaceIdCounter ], NoIsoData) } :
          /\ isoSurfaceRows' = st.rows
          /\ isoSurfaces' = st.list
          /\ isoSurfaceIdCounter' = st.counter
    /\ UNCHANGED <<formVars, calcVars, viewVars, isotherms, isothermIdCounter, isothermRows,
                   fileVars, probe, callVars, edits, mcVars>>

\* updateState of the i-th isosurface row after the user sets its temperature
\* and its checkbox.
UpdateIsoSurface(i, temp, enabled) ==
    /\ i \in 1..Len(isoSurfaceRows)
    /\ <<temp, enabled>> # <<isoSurfaceRows[i].temp, isoSurfaceRows[i].enabled>>
    /\ isoSurfaceRows' = [isoSurfaceRows EXCEPT ![i] =
                             [id |-> isoSurfaceRows[i].id, temp |-> temp, enabled |-> enabled]]
    /\ isoSurfaces' = UpdatedIsoList(isoSurfaces, isoSurfaceRows[i].id, temp, enabled)
    /\ RebuildAfter(isoSurfaces')
    /\ UNCHANGED <<formVars, calcVars, isoSurfaceIdCounter, isotherms, isothermIdCounter,
                   isothermRows, fileVars, probe, callVars, edits, mcVars>>

\* The remove button of the i-th isosurface row.
RemoveIsoSurface(i) ==
    /\ i \in 1..Len(isoSurfaceRows)
    /\ isoSurfaces' = WithoutIsoId(isoSurfaces, isoSurfaceRows[i].id)
    /\ isoSurfaceRows' = WithoutIndex(isoSurfaceRows, i)
    /\ RebuildAfter(isoSurfaces')
    /\ UNCHANGED <<formVars, calcVars, isoSurfaceIdCounter, isotherms, isothermIdCounter,
                   isothermRows, fileVars, probe, callVars, edits, mcVars>>

\* addIsotherm() (the Add button).
AddIsotherm ==
    /\ isothermIdCounter < MaxIso
    /\ Len(isothermRows) < MaxIso
    /\ \E st \in { addIsotherm([ rows |-> isothermRows, list |-> isotherms,
                                 counter |-> isothermIdCounter ], NoIsoData) } :
          /\ isothermRows' = st.rows
          /\ isotherms' = st.list
          /\ isothermIdCounter' = st.counter
    /\ UNCHANGED <<formVars, calcVars, viewVars, isoSurfaces, isoSurfaceIdCounter,
                   isoSurfaceRows, fileVars, probe, callVars, edits, mcVars>>

\* updateState of the i-th isotherm row after the user sets its temperature and
\* its checkbox; draw2DScene redraws the canvas.
UpdateIsotherm(i, temp, enabled) ==
    /\ i \in 1..Len(isothermRows)
    /\ <<temp, enabled>> # <<isothermRows[i].temp, isothermRows[i].enabled>>
    /\ isothermRows' = [isothermRows EXCEPT ![i] =
                           [id |-> isothermRows[i].id, temp |-> temp, enabled |-> enabled]]
    /\ isotherms' = UpdatedIsoList(isotherms, isothermRows[i].id, temp, enabled)
    /\ UNCHANGED <<formVars, calcVars, viewVars, isothermIdCounter, isoSurfaces,
                   isoSurfaceIdCounter, isoSurfaceRows, fileVars, probe, callVars, edits,
                   mcVars>>

\* The remove button of the i-th isotherm row.
RemoveIsotherm(i) ==
    /\ i \in 1..Len(isothermRows)
    /\ isotherms' = WithoutIsoId(isotherms, isothermRows[i].id)
    /\ isothermRows' = WithoutIndex(isothermRows, i)
    /\ UNCHANGED <<formVars, calcVars, viewVars, isothermIdCounter, isoSurfaces,
                   isoSurfaceIdCounter, isoSurfaceRows, fileVars, probe, callVars, edits,
                   mcVars>>

\* saveScenario (the Save button): the file holds the form and the two lists.
SaveScenario ==
    /\ scenarioFile' = ScenarioOf(pipeRows, soilRows, soilTempInput, isotherms, isoSurfaces)
    /\ UNCHANGED <<formVars, calcVars, viewVars, isoVars, probe, callVars, edits, mcVars>>

\* The rows and lists after clearInputs and the addSoilLayer, addPipe, addIsotherm
\* and addIsoSurface calls of a scenario.
FormOf(scenario) ==
    [ rows      |-> PipeRowsOf(scenario.pipes),
      layerRows |-> [i \in 1..Len(scenario.soilLayers) |-> SoilRowOf(scenario.soilLayers[i])],
      soilTemp  |-> scenario.soilTemp,
      therms    |-> AddIsotherms(NoIsoRows, scenario.isotherms, 1),
      surfaces  |-> AddIsoSurfaces(NoIsoRows, scenario.isoSurfaces, 1) ]

\* clearInputs, the rows of a scenario, then handleCalculate: the common part of
\* handleLoadExample and of the reader.onload callback of loadScenario.
LoadForm(form) ==
    /\ pipeRows' = form.rows
    /\ pipeIdCounter' = Len(form.rows)
    /\ soilRows' = form.layerRows
    /\ soilTempInput' = form.soilTemp
    /\ isothermRows' = form.therms.rows
    /\ isotherms' = form.therms.list
    /\ isothermIdCounter' = form.therms.counter
    /\ isoSurfaceRows' = form.surfaces.rows
    /\ isoSurfaces' = form.surfaces.list
    /\ isoSurfaceIdCounter' = form.surfaces.counter
    /\ CalculateForm(form.rows, form.layerRows, form.soilTemp, form.surfaces.list)
    /\ UNCHANGED <<fileVars, solver, probe, callVars, edits, mcVars>>

\* handleLoadExample (the Load Example button).
HandleLoadExample == \E form \in { FormOf(ExampleScenario) } : LoadForm(form)

\* loadScenario with the file saveScenario wrote.
LoadScenario ==
    /\ scenarioFile # Null
    /\ \E form \in { FormOf(scenarioFile) } : LoadForm(form)

\* The cubes of a run with what each did (cubeindex, vertlist, vertices), in order.
RunCubes(data, dims, isolevel) ==
    LET order == CubeOrder(dims)
    IN  [n \in 1..Len(order) |->
            [at |-> order[n]] @@
            MarchCube(data, dims, isolevel, order[n][1], order[n][2], order[n][3])]

\* A call marchingCubes.run(data, dims, isolevel).
RunMarchingCubes ==
    /\ mcInput # Null
    /\ mcOutput' = [ call     |-> "run",
                     cubes    |-> RunCubes(mcInput.data, mcInput.dims, mcInput.isolevel),
                     vertices |-> run(mcInput.data, mcInput.dims, mcInput.isolevel) ]
    /\ UNCHANGED <<formVars, calcVars, viewVars, isoVars, fileVars, probe, callVars, edits, mcInput>>

\* A call vertexInterp(isolevel, p1, p2, valp1, valp2) for edge e of the cube at
\* the origin of the lattice.
CallVertexInterp(e) ==
    /\ mcInput # Null
    /\ LET p  == CubeCorners(0, 0, 0)
           p1 == p[EdgeCorners[e + 1][1] + 1]
           p2 == p[EdgeCorners[e + 1][2] + 1]
           valp1 == getVal(mcInput.data, mcInput.dims, p1[1], p1[2], p1[3])
           valp2 == getVal(mcInput.data, mcInput.dims, p2[1], p2[2], p2[3])
       IN  mcOutput' = [ call |-> "vertexInterp", p1 |-> p1, p2 |-> p2,
                         valp1 |-> valp1, valp2 |-> valp2,
                         vertex |-> vertexInterp(mcInput.isolevel, p1, p2, valp1, valp2) ]
    /\ UNCHANGED <<formVars, calcVars, viewVars, isoVars, fileVars, probe, callVars, edits, mcInput>>

(***************************************************************************)
(* Specifications                                                          *)
(***************************************************************************)
NoSubmission == [outcome |-> "none", pipeRows |-> << >>, soilRows |-> << >>]

\* The page as loaded with the given rows filled in: nothing calculated, 2D view,
\* no isosurface rows.
PageWith(rows, layerRows) ==
    /\ pipeRows = rows
    /\ soilRows = layerRows
    /\ soilTempInput \in SoilTempInputs
    /\ pipeIdCounter = Len(rows)
    /\ currentCalculationData = Null
    /\ errorShown = FALSE
    /\ currentViewMode = "2d"
    /\ threeDManager = Null
    /\ isoSurfaces = << >>
    /\ isoSurfaceIdCounter = 0
    /\ isoSurfaceRows = << >>
    /\ isotherms = << >>
    /\ isothermIdCounter = 0
    /\ isothermRows = << >>
    /\ scenarioFile = Null
    /\ solver = Null
    /\ submitted = NoSubmission
    /\ probe = Null
    /\ lastCall = Null
    /\ edits = 0
    /\ lastBuild = Null
    /\ animationFrames = NoFrames
    /\ mcOutput = Null

\* The page as loaded (one pipe row and one soil row, as the user fills them in);
\* a session of row edits and calculations.
Init ==
    /\ \E data \in PipeInputs, layer \in SoilInputs : PageWith(WithIds(<<data>>), <<layer>>)
    /\ mcInput = Null
    /\ callInput = Null

Next ==
    \/ \E data \in PipeInputs : AddPipe(data)
    \/ \E i \in 1..MaxPipes : RemovePipe(i)
    \/ \E data \in SoilInputs : AddSoilLayer(data)
    \/ \E i \in 1..MaxLayers : RemoveSoilLayer(i)
    \/ HandleCalculate

Spec == Init /\ [][Next]_vars

\* A filled-in form; calculation and point queries on it.
InitField ==
    /\ \/ \E rows \in SubSeqs(PipeInputSeq, MaxPipes),
             layerRows \in Prefixes(SoilInputSeq, MaxLayers) :
             PageWith(WithIds(rows), layerRows)
       \/ \E form \in DegenerateForms : PageWith(WithIds(form[1]), form[2])
    /\ mcInput = Null
    /\ callInput = Null

NextField ==
    \/ HandleCalculate
    \/ \E p \in ProbePoints : ShowTooltip(p[1], p[2])
    \/ \E p \in ProbePoints : EvaluatePoint(p[1], p[2])

SpecField == InitField /\ [][NextField]_vars

\* Calls of marchingCubes on a lattice.
InitMC ==
    /\ PageWith(WithIds(<<SourceBare>>), <<SoilMoist>>)
    /\ mcInput \in MCInputs
    /\ callInput = Null

NextMC ==
    \/ RunMarchingCubes
    \/ \E e \in 0..11 : CallVertexInterp(e)

SpecMC == InitMC /\ [][NextMC]_vars

\* A form with one source in one soil layer; calculation, the view mode and the
\* isosurface rows.
InitScene ==
    /\ PageWith(WithIds(<<SourceBare>>), <<SoilMoist>>)
    /\ mcInput = Null
    /\ callInput = Null

NextScene ==
    \/ HandleCalculate
    \/ \E mode \in {"2d", "3d"} : SelectViewMode(mode)
    \/ AddIsoSurface
    \/ \E i \in 1..MaxIso, temp \in IsoTempInputs, enabled \in BOOLEAN :
          UpdateIsoSurface(i, temp, enabled)
    \/ \E i \in 1..MaxIso : RemoveIsoSurface(i)
    \/ AnimationFrame

SpecScene == InitScene /\ [][NextScene]_vars

\* A page with one source in one soil layer, in the 2D view.  Isotherm and
\* isosurface rows are added, edited and removed; the example and the saved
\* scenario are loaded.
InitIsoRows ==
    /\ PageWith(WithIds(<<SourceBare>>), <<SoilMoist>>)
    /\ mcInput = Null
    /\ callInput = Null

NextIsoRows ==
    \/ AddIsotherm
    \/ \E i \in 1..MaxIso, temp \in IsoRowTemps : UpdateIsotherm(i, temp, TRUE)
    \/ \E i \in 1..MaxIso : RemoveIsotherm(i)
    \/ AddIsoSurface
    \/ \E i \in 1..MaxIso : RemoveIsoSurface(i)
    \/ SaveScenario
    \/ LoadScenario

SpecIsoRows == InitIsoRows /\ [][NextIsoRows]_vars

\* A page with a source and an affected pipe in one soil layer.  Pipe rows are
\* added and removed, the form is calculated, the example and the saved scenario
\* are loaded.
InitPipeRows ==
    /\ PageWith(WithIds(<<SourceBare, AffectedPlain>>), <<SoilMoist>>)
    /\ mcInput = Null
    /\ callInput = Null

NextPipeRows ==
    \/ \E data \in SessionPipeInputs : AddPipe(data)
    \/ \E i \in 1..Len(ExampleScenario.pipes) : RemovePipe(i)
    \/ HandleCalculate
    \/ HandleLoadExample
    \/ SaveScenario
    \/ LoadScenario

SpecPipeRows == InitPipeRows /\ [][NextPipeRows]_vars

\* A filled-in form; calculateTemperatures runs statement by statement.  No other
\* handler runs while it does (a handler runs to completion); between
\* calculations rows are removed and the tooltip queries the scene.
InitSolve ==
    /\ \E rows \in SubSeqs(SolveInputSeq, MaxPipes),
          layerRows \in Prefixes(SoilInputSeq, MaxLayers) :
          PageWith(WithIds(rows), layerRows)
    /\ mcInput = Null
    /\ callInput = Null

NextSolve ==
    \/ StartCalculate
    \/ SolverStep
    \/ FinishCalculate
    \/ solver = Null /\ \E i \in 1..MaxPipes : RemovePipe(i)
    \/ solver = Null /\ \E p \in SolveProbePoints : ShowTooltip(p[1], p[2])

SpecSolve == InitSolve /\ [][NextSolve]_vars

(***************************************************************************)
(* Direct calls of the calculation functions                               *)
(*                                                                         *)
(* The arguments are in SI units, as getPipes and getSoilLayers hand them  *)
(* to calculateTemperatures: lengths in m, temperatures in degC,           *)
(* conductivities in W/m-K.  The functions are pure, so a behaviour makes  *)
(* one call on its inputs.                                                 *)
(***************************************************************************)
\* A heat source at depth 1.5 m, 200 degC, steel pipe of OD 0.1 m without
\* insulation or bedding; no wall thickness is given.
FixtureSource ==
    [ role |-> "heat_source", orientation |-> "parallel", temp |-> Num(200),
      x |-> Zero, y |-> Zero, z |-> Fin(15000), od |-> Fin(1000), thickness |-> Zero,
      ins_thickness |-> Zero, bed_thickness |-> Zero,
      k_pipe |-> Num(45), k_ins |-> Zero, k_bedding |-> Zero ]

\* A source whose outer diameter field is 0, with 0.05 m of insulation (k = 0.05).
CallSourceNoOd ==
    [x |-> Num(2), od |-> Zero, ins_thickness |-> Fin(500), k_ins |-> Fin(500)]
    @@ FixtureSource

\* A source at the soil temperature (15 degC), 0.3 m to the side, with 0.05 m of
\* insulation: its heat flux is 0.
CallSourceCold ==
    [temp |-> Num(15), x |-> Fin(3000), ins_thickness |-> Fin(500), k_ins |-> Fin(500)]
    @@ FixtureSource

\* A perpendicular source at depth 1 m, 150 degC, with 0.05 m of bedding (k = 1).
CallSourcePerp ==
    [orientation |-> "perpendicular", temp |-> Num(150), x |-> Num(3), z |-> Num(1),
     bed_thickness |-> Fin(500), k_bedding |-> Num(1)] @@ FixtureSource

\* Affected pipes: parallel at (1 m, 0.5 m); parallel on the centreline of
\* FixtureSource; perpendicular at y = 2 m on the ground surface, without diameter.
CallAffectedPar ==
    [role |-> "affected_pipe", temp |-> Undefined, x |-> Num(1), z |-> Fin(5000)]
    @@ FixtureSource

CallAffectedCoincident == [role |-> "affected_pipe", temp |-> Undefined] @@ FixtureSource

CallAffectedPerp ==
    [role |-> "affected_pipe", orientation |-> "perpendicular", temp |-> Undefined,
     x |-> Num(5), y |-> Num(2), z |-> Zero, od |-> Zero] @@ FixtureSource

CallPipeSeq ==
    << FixtureSource, CallSourceNoOd, CallSourceCold, CallSourcePerp,
       CallAffectedPar, CallAffectedCoincident, CallAffectedPerp >>

\* Soil layers [k, thickness]: k = 1.5 and 10 m; k = 0.5 and 1 m; k = 0 and 1 m.
CallLayerSeq ==
    << [k |-> Fin(15000), thickness |-> Num(10)],
       [k |-> Fin(5000),  thickness |-> Num(1)],
       [k |-> Zero,       thickness |-> Num(1)] >>

\* The layers getSoilLayers pushes for rows i, i + 1, ... of layers with the
\* given k and thickness, the first at depth currentDepth.
RECURSIVE SoilStackFrom(_, _, _)
SoilStackFrom(rows, i, currentDepth) ==
    IF i > Len(rows) THEN << >>
    ELSE << [ k            |-> rows[i].k,
              thickness    |-> rows[i].thickness,
              depth_top    |-> currentDepth,
              depth_bottom |-> FAdd(currentDepth, rows[i].thickness) ] >>
         \o SoilStackFrom(rows, i + 1, FAdd(currentDepth, rows[i].thickness))

SoilStack(rows) == SoilStackFrom(rows, 1, Zero)

\* The sequences of at most n different elements of s.
Arrangements(s, n) ==
    UNION { { [i \in 1..m |-> s[f[i]]] :
                f \in { g \in [1..m -> 1..Len(s)] :
                          \A a, b \in 1..m : a # b => g[a] # g[b] } } :
            m \in 0..(IF n < Len(s) THEN n ELSE Len(s)) }

\* The arguments of calculateTemperatures; the soil temperature is 15 degC.
CallInputs ==
    { [ pipes |-> WithIds(ps), soilLayers |-> SoilStack(rows), T_soil_C |-> Num(15) ] :
      ps \in SubSeqs(CallPipeSeq, MaxPipes), rows \in Arrangements(CallLayerSeq, MaxLayers) }

\* Depths (m) for getSoilKAtPoint: above ground, inside layers, on layer
\* boundaries and below every stack.
CallDepths ==
    { Fin(-5000), Zero, Fin(5000), Num(1), Fin(15000), Num(2), Num(10), Num(11),
      Num(12), Num(20) }

\* Point pairs <<p1, p2>> for getEffectiveKForPath: coincident points at depths
\* 0.5 m, 1.5 m and 10.5 m; a slanted, a vertical and a horizontal path.
CallPaths ==
    { << [x |-> Zero, z |-> Fin(5000)],   [x |-> Zero, z |-> Fin(5000)] >>,
      << [x |-> Zero, z |-> Fin(15000)],  [x |-> Zero, z |-> Fin(15000)] >>,
      << [x |-> Num(1), z |-> Fin(105000)], [x |-> Num(1), z |-> Fin(105000)] >>,
      << [x |-> Zero, z |-> Fin(15000)],  [x |-> Num(1), z |-> Fin(5000)] >>,
      << [x |-> Zero, z |-> Fin(5000)],   [x |-> Zero, z |-> Fin(25000)] >>,
      << [x |-> Zero, z |-> Fin(15000)],  [x |-> Num(2), z |-> Fin(15000)] >> }

\* Query points <<x, z>> for calculateTemperatureAtPoint: in the insulation of
\* CallSourceCold, on the centrelines of FixtureSource and CallSourceCold, in
\* the bedding of CallSourcePerp, on the centreline of CallAffectedPar, in the
\* soil, on the ground surface.
CallPoints ==
    { << Fin(3800), Fin(15000) >>, << Zero, Fin(15000) >>, << Fin(3000), Fin(15000) >>,
      << Num(1), Fin(10800) >>, << Num(1), Fin(5000) >>, << Fin(15000), Fin(25000) >>,
      << Num(1), Zero >> }

\* calculateTemperatures(pipes, soilLayers, T_soil_C)
CallCalculateTemperatures ==
    /\ callInput # Null
    /\ lastCall = Null
    /\ lastCall' = [ fn |-> "calculateTemperatures",
                     result |-> calculateTemperatures(callInput.pipes, callInput.soilLayers,
                                                      callInput.T_soil_C) ]
    /\ UNCHANGED <<formVars, calcVars, viewVars, isoVars, fileVars, probe, callInput, edits, mcVars>>

\* getSoilKAtPoint(0, z, soilLayers)
CallGetSoilKAtPoint(z) ==
    /\ callInput # Null
    /\ lastCall = Null
    /\ lastCall' = [ fn |-> "getSoilKAtPoint", z |-> z,
                     result |-> getSoilKAtPoint(z, callInput.soilLayers) ]
    /\ UNCHANGED <<formVars, calcVars, viewVars, isoVars, fileVars, probe, callInput, edits, mcVars>>

\* getEffectiveKForPath(p1, p2, soilLayers)
CallGetEffectiveKForPath(p1, p2) ==
    /\ callInput # Null
    /\ lastCall = Null
    /\ lastCall' = [ fn |-> "getEffectiveKForPath", p1 |-> p1, p2 |-> p2,
                     result |-> getEffectiveKForPath(p1, p2, callInput.soilLayers) ]
    /\ UNCHANGED <<formVars, calcVars, viewVars, isoVars, fileVars, probe, callInput, edits, mcVars>>

\* calculateTemperatureAtPoint(x, z, sceneData) on the sceneData that
\* calculateTemperatures returns for the inputs; sources is its sourceCalcs.
CallCalculateTemperatureAtPoint(x, z) ==
    /\ callInput # Null
    /\ lastCall = Null
    /\ \E data \in { calculateTemperatures(callInput.pipes, callInput.soilLayers,
                                            callInput.T_soil_C) } :
          lastCall' = [ fn |-> "calculateTemperatureAtPoint",
                        sources |-> data.detailedCalculations.sources ]
                      @@ ProbeOf(x, z, data.sceneData)
    /\ UNCHANGED <<formVars, calcVars, viewVars, isoVars, fileVars, probe, callInput, edits, mcVars>>

InitCalls ==
    /\ PageWith(<< >>, << >>)
    /\ mcInput = Null
    /\ callInput \in CallInputs

NextCalls ==
    \/ CallCalculateTemperatures
    \/ \E z \in CallDepths : CallGetSoilKAtPoint(z)
    \/ \E path \in CallPaths : CallGetEffectiveKForPath(path[1], path[2])
    \/ \E p \in CallPoints : CallCalculateTemperatureAtPoint(p[1], p[2])

SpecCalls == InitCalls /\ [][NextCalls]_vars

(***************************************************************************)
(* The grid sampler of buildScene (lines 1634-1657)                        *)
(*                                                                         *)
(* lastCall holds the sampler's locals: the loop counters i, j, k, the     *)
(* scalarField written so far, and two records of its writes: cellOf[n],   *)
(* the lattice nodes whose sample was written at index n, and outside, the *)
(* number of writes at an index outside the array (a Float32Array ignores  *)
(* them).  Float32 rounding is finer than the resolution of the numbers    *)
(* here for temperatures below 1024 degrees and is left out.               *)
(***************************************************************************)
\* The index of line 1655 with dimX in place of dimX * dimY.
SampleIndexFlat(i, j, k, dims) == i + j * dims[1] + k * dims[1]

\* The index of line 1655: scalarField[i + j * dimX + k * dimX * dimY] = temp
SampleIndex(i, j, k, dims) == i + j * dims[1] + k * dims[1] * dims[2]

\* The temperature calculateTemperatureAtPoint(worldX, worldZ_Physics, sceneData)
\* at lattice node (i, j, k): worldX follows i and worldZ_Physics follows j, so
\* the sample does not depend on k.  A field is lo at the nodes whose class
\* (i % 2) + 2 (j % 2) is in pattern and hi elsewhere.
NodeTemp(field, i, j, k) ==
    IF ((i % 2) + 2 * (j % 2)) \in field.pattern THEN field.lo ELSE field.hi

\* The temperature fields sampled and the dims of the lattice.
GridInputs ==
    { [ dims |-> GridDims, field |-> [pattern |-> pattern, lo |-> Num(10), hi |-> hi] ] :
      pattern \in SUBSET (0..3), hi \in { Num(30), NaN } }

\* const scalarField = new Float32Array(dimX * dimY * dimZ)  (line 1637)
StartSampling ==
    /\ callInput # Null
    /\ lastCall = Null
    /\ lastCall' =
          [ fn |-> "sampleGrid", i |-> 0, j |-> 0, k |-> 0, outside |-> 0,
            scalarField |-> [n \in 0..(callInput.dims[1] * callInput.dims[2]
                                        * callInput.dims[3] - 1) |-> Zero],
            cellOf |-> [n \in 0..(callInput.dims[1] * callInput.dims[2]
                                   * callInput.dims[3] - 1) |-> << >>] ]
    /\ UNCHANGED <<formVars, calcVars, viewVars, isoVars, fileVars, probe, callInput, edits, mcVars>>

\* The counters after one pass of the innermost loop body: k innermost, i outermost.
NextNode(i, j, k, dims) ==
    IF k + 1 < dims[3] THEN <<i, j, k + 1>>
    ELSE IF j + 1 < dims[2] THEN <<i, j + 1, 0>>
    ELSE <<i + 1, 0, 0>>

\* The sampler's locals after the write of temp at index n for node (i, j, k).
AfterWrite(s, n, temp, next) ==
    [ fn |-> "sampleGrid", i |-> next[1], j |-> next[2], k |-> next[3],
      outside |-> IF n \in DOMAIN s.scalarField THEN s.outside ELSE s.outside + 1,
      scalarField |-> IF n \in DOMAIN s.scalarField
                      THEN [s.scalarField EXCEPT ![n] = temp] ELSE s.scalarField,
      cellOf |-> IF n \in DOMAIN s.cellOf
                 THEN [s.cellOf EXCEPT ![n] = Append(@, <<s.i, s.j, s.k>>)] ELSE s.cellOf ]

\* One pass of the body of the loops of lines 1645-1657.
SampleCell ==
    /\ callInput # Null
    /\ lastCall # Null
    /\ lastCall.fn = "sampleGrid"
    /\ lastCall.i < callInput.dims[1]
    /\ lastCall' = AfterWrite(lastCall,
                              SampleIndex(lastCall.i, lastCall.j, lastCall.k, callInput.dims),
                              NodeTemp(callInput.field, lastCall.i, lastCall.j, lastCall.k),
                              NextNode(lastCall.i, lastCall.j, lastCall.k, callInput.dims))
    /\ UNCHANGED <<formVars, calcVars, viewVars, isoVars, fileVars, probe, callInput, edits, mcVars>>

InitGrid ==
    /\ PageWith(<< >>, << >>)
    /\ mcInput = Null
    /\ callInput \in GridInputs

NextGrid ==
    \/ StartSampling
    \/ SampleCell

SpecGrid == InitGrid /\ [][NextGrid]_vars

(***************************************************************************)
(* getSoilLayers on soil rows of any content                               *)
(***************************************************************************)
\* Soil rows as typed: thickness (ft) positive, 0, negative or empty (NaN),
\* conductivity (W/m-K) of a material.
SoilRowInputs ==
    { SoilMoist, SoilDry,
      [k |-> Fin(15000), thickness |-> Zero],
      [k |-> Fin(5000),  thickness |-> Num(-2)],
      [k |-> Fin(15000), thickness |-> NaN] }

\* The sequences of at most n elements of set S.
SeqsUpTo(S, n) == UNION { [1..m -> S] : m \in 0..n }

\* A call getSoilLayers() on the rows of the page.
CallGetSoilLayers ==
    /\ lastCall = Null
    /\ lastCall' = [ fn |-> "getSoilLayers", result |-> getSoilLayers(soilRows) ]
    /\ UNCHANGED <<formVars, calcVars, viewVars, isoVars, fileVars, probe, callInput, edits, mcVars>>

InitSoil ==
    /\ \E rows \in SeqsUpTo(SoilRowInputs, MaxLayers + 1) : PageWith(<< >>, rows)
    /\ mcInput = Null
    /\ callInput = Null

NextSoil == CallGetSoilLayers

SpecSoil == InitSoil /\ [][NextSoil]_vars

(***************************************************************************)
(* What the properties below read from the state                           *)
(***************************************************************************)
\* What handleCalculate did with the form it last read.
Rejected == submitted.outcome = "rejected" /\ errorShown

\* The heat sources and the affected pipes of a CalculationData, in the order of
\* sourceCalcs and affectedPipeCalcs, and the sources with their Q.
HeatSourcesOf(data) ==
    FilterIdx(data.inputs.pipes,
              { i \in 1..Len(data.inputs.pipes) : data.inputs.pipes[i].role = "heat_source" }, 1)

AffectedPipesOf(data) ==
    FilterIdx(data.inputs.pipes,
              { i \in 1..Len(data.inputs.pipes) : data.inputs.pipes[i].role = "affected_pipe" }, 1)

SourcesWithQOf(data) ==
    [i \in 1..Len(HeatSourcesOf(data)) |->
        [Q |-> data.detailedCalculations.sources[i].Q] @@ HeatSourcesOf(data)[i]]

\* The sources with the Q of every source but the j-th set to 0.
OnlySource(sources, j) ==
    [i \in 1..Len(sources) |-> IF i = j THEN sources[i] ELSE [Q |-> Zero] @@ sources[i]]

\* The sum of the tempRise of the interactions of an AffectedPipeCalculation.
SumOfInteractions(calc) ==
    SumFrom([j \in 1..Len(calc.interactions) |-> calc.interactions[j].tempRise], 1, Zero)

\* Every field of a typed row that getPipes reads holds a finite number.
FiniteRow(row) ==
    /\ \A n \in { row.x, row.y, row.z, row.od, row.thickness, row.ins, row.bed,
                  row.k_pipe, row.k_ins, row.k_bed } : IsFinite(n)
    /\ row.role = "heat_source" => IsFinite(row.temp)

FiniteForm(rows) == \A i \in 1..Len(rows) : FiniteRow(rows[i])

\* The query point (x, z) lies on the centreline of the pipe.
OnCentreline(pipe, x, z) == DistToCenter(pipe, x, z) = Zero

FiniteVertex(v) == IsFinite(v.x) /\ IsFinite(v.y) /\ IsFinite(v.z)

\* The two corner values of an edge are not finite, or differ by less than 1e-9.
DegenerateEdge(valp1, valp2) ==
    \/ ~IsFinite(valp1)
    \/ ~IsFinite(valp2)
    \/ LtTiny(FAbs(FSub(valp2, valp1)))

\* The values at the two corners of edge e of the cube at position at.
EdgeValue(input, at, e, end) ==
    LET p == CubeCorners(at[1], at[2], at[3])[EdgeCorners[e + 1][end] + 1]
    IN  getVal(input.data, input.dims, p[1], p[2], p[3])

EdgeFirstCorner(at, e) == CornerVector(CubeCorners(at[1], at[2], at[3])[EdgeCorners[e + 1][1] + 1])

\* The i-th active isosurface of a build met no exception and has a surface.
IsoSurfaceDue(build, i) ==
    /\ build.faults[i] = "none"
    /\ Len(run(build.field, GridDims, FtoC(build.active[i].temp))) > 0

HasMeshOf(build, i) ==
    \E m \in 1..Len(build.isoSurfaceObjects) :
        build.isoSurfaceObjects[m].isoId = build.active[i].id

(***************************************************************************)
(* Properties                                                              *)
(***************************************************************************)
\* C1: whenever a pipe row read by handleCalculate has a depth z that does not
\* exceed its total outer radius od/2 + insulation + bedding (z equal to the radius
\* included), handleCalculate shows an error and does not calculate.
RejectsDepthNotExceedingRadius ==
    ( /\ submitted.outcome # "none"
      /\ \E i \in 1..Len(submitted.pipeRows) : ~validatePipeRowStrict(submitted.pipeRows[i]) )
        => Rejected

\* C2: whenever a heat_source row read by handleCalculate has a missing or
\* unparsable temperature, handleCalculate shows an error and does not calculate.
RejectsSourceWithoutTemperature ==
    ( /\ submitted.outcome # "none"
      /\ \E i \in 1..Len(submitted.pipeRows) :
            /\ submitted.pipeRows[i].role = "heat_source"
            /\ IsNaN(submitted.pipeRows[i].temp) )
        => Rejected

\* C3: for finite inputs that pass validation, the totalTempRise and finalTemp of
\* every affected pipe, and every temperature calculateTemperatureAtPoint
\* returns, are finite.
TemperaturesAreFinite ==
    (FiniteForm(pipeRows) /\ currentCalculationData # Null) =>
        /\ \A a \in 1..Len(currentCalculationData.detailedCalculations.affectedPipes) :
              /\ IsFinite(currentCalculationData.detailedCalculations.affectedPipes[a].totalTempRise)
              /\ IsFinite(currentCalculationData.detailedCalculations.affectedPipes[a].finalTemp)
        /\ probe # Null => IsFinite(probe.value)

NoSelfContribution ==
    /\ currentCalculationData # Null =>
          \A a \in 1..Len(currentCalculationData.detailedCalculations.affectedPipes) :
             LET calc == currentCalculationData.detailedCalculations.affectedPipes[a]
             IN  \A j \in 1..Len(calc.interactions) :
                    calc.interactions[j].sourceId # calc.pipeId
    /\ probe # Null =>
          \A i \in 1..Len(probe.scene.pipes) :
             ( /\ probe.scene.pipes[i].isSource
               /\ OnCentreline(probe.scene.pipes[i], probe.x, probe.z) )
                => /\ i \notin probe.eval.terms
                   /\ ~(probe.eval.branch = "surface" /\ probe.eval.pipe = i)

\* A query on the centreline of a source of positive heat flux, answered with the
\* temperature of that source.
QueryOnSourceCentreline ==
    /\ probe # Null
    /\ \E i \in 1..Len(probe.scene.pipes) :
          /\ probe.scene.pipes[i].isSource
          /\ FGt(probe.scene.pipes[i].Q, Zero)
          /\ OnCentreline(probe.scene.pipes[i], probe.x, probe.z)
          /\ probe.eval.branch = "pipe"
          /\ probe.eval.pipe = i

\* C6: for every affected pipe, finalTemp = T_soil + totalTempRise, totalTempRise
\* is the sum of the tempRise of its interactions, and it equals the sum over the
\* sources of the rise calculated with the Q of every other source set to 0.
SuperpositionIsLinear ==
    currentCalculationData # Null =>
        LET data     == currentCalculationData
            sources  == SourcesWithQOf(data)
            affected == AffectedPipesOf(data)
            calcs    == data.detailedCalculations.affectedPipes
            Alone(a, j) == AffectedPipeCalculation(affected[a], OnlySource(sources, j),
                                                   data.inputs.soilLayers,
                                                   data.inputs.T_soil).totalTempRise
        IN  \A a \in 1..Len(calcs) :
               /\ calcs[a].finalTemp = FAdd(data.inputs.T_soil, calcs[a].totalTempRise)
               /\ calcs[a].totalTempRise = SumOfInteractions(calcs[a])
               /\ calcs[a].totalTempRise =
                     SumFrom([j \in 1..Len(sources) |-> Alone(a, j)], 1, Zero)

\* An affected pipe heated by two sources, each with a positive rise.
AffectedByTwoSources ==
    /\ currentCalculationData # Null
    /\ \E a \in 1..Len(currentCalculationData.detailedCalculations.affectedPipes) :
          LET calc == currentCalculationData.detailedCalculations.affectedPipes[a]
          IN  /\ Len(calc.interactions) >= 2
              /\ FGt(calc.interactions[1].tempRise, Zero)
              /\ FGt(calc.interactions[2].tempRise, Zero)

\* C7: for every heat source, R_total = R_pipe + R_ins + R_bed + R_soil,
\* Q = (T_pipe - T_soil) / R_total when R_total > 0, Q = 0 when R_total is not
\* greater than 0 (zero, negative or NaN), and Q is finite.
HeatFluxIsGuarded ==
    currentCalculationData # Null =>
        \A i \in 1..Len(currentCalculationData.detailedCalculations.sources) :
           LET c    == currentCalculationData.detailedCalculations.sources[i]
               pipe == HeatSourcesOf(currentCalculationData)[i]
           IN  /\ c.R_total = FAdd(FAdd(FAdd(c.R_pipe, c.R_ins), c.R_bed), c.R_soil)
               /\ FGt(c.R_total, Zero) =>
                     c.Q = FDiv(FSub(pipe.temp, currentCalculationData.inputs.T_soil),
                                c.R_total)
               /\ ~FGt(c.R_total, Zero) => c.Q = Zero
               /\ IsFinite(c.Q)

\* A heat source whose R_total is NaN, with Q = 0.
SourceWithoutResistance ==
    /\ currentCalculationData # Null
    /\ \E i \in 1..Len(currentCalculationData.detailedCalculations.sources) :
          /\ IsNaN(currentCalculationData.detailedCalculations.sources[i].R_total)
          /\ currentCalculationData.detailedCalculations.sources[i].Q = Zero

\* C8: every vertex marchingCubes.run returns has three finite coordinates, and
\* vertexInterp returns the position of the edge's first corner when a corner value
\* is not finite or the two corner values differ by less than 1e-9.
VerticesAreFinite ==
    /\ (mcOutput # Null /\ mcOutput.call = "run") =>
          /\ \A n \in 1..Len(mcOutput.vertices) : FiniteVertex(mcOutput.vertices[n])
          /\ \A c \in 1..Len(mcOutput.cubes), e \in 0..11 :
                ( /\ mcOutput.cubes[c].vertlist[e] # Null
                  /\ DegenerateEdge(EdgeValue(mcInput, mcOutput.cubes[c].at, e, 1),
                                    EdgeValue(mcInput, mcOutput.cubes[c].at, e, 2)) )
                   => mcOutput.cubes[c].vertlist[e]
                         = EdgeFirstCorner(mcOutput.cubes[c].at, e)
    /\ (mcOutput # Null /\ mcOutput.call = "vertexInterp") =>
          /\ FiniteVertex(mcOutput.vertex)
          /\ DegenerateEdge(mcOutput.valp1, mcOutput.valp2)
                => mcOutput.vertex = CornerVector(mcOutput.p1)

\* A run that returns vertices of a cube with an interpolated edge one of whose
\* corner values is not finite.
RunOverNonFiniteSamples ==
    /\ mcOutput # Null
    /\ mcOutput.call = "run"
    /\ \E c \in 1..Len(mcOutput.cubes), e \in 0..11 :
          /\ Len(mcOutput.cubes[c].vertices) > 0
          /\ mcOutput.cubes[c].vertlist[e] # Null
          /\ \/ ~IsFinite(EdgeValue(mcInput, mcOutput.cubes[c].at, e, 1))
             \/ ~IsFinite(EdgeValue(mcInput, mcOutput.cubes[c].at, e, 2))

\* C9: in buildScene every enabled isosurface that meets no exception and has a
\* surface gets its mesh, whatever exceptions the other isosurfaces raised, and
\* setupAxes and animate run.
IsoSurfaceFailureIsContained ==
    lastBuild # Null =>
        /\ \A i \in 1..Len(lastBuild.active) :
              IsoSurfaceDue(lastBuild, i) => HasMeshOf(lastBuild, i)
        /\ lastBuild.setupAxes
        /\ lastBuild.animate
        /\ threeDManager # Null =>
              threeDManager.axesObjects = 4 /\ threeDManager.animationFrameId # Null

\* A build in which an isosurface raised an exception and a later one got its mesh.
MeshAfterFailedIsoSurface ==
    /\ lastBuild # Null
    /\ \E i, j \in 1..Len(lastBuild.active) :
          /\ i < j
          /\ lastBuild.faults[i] = "throw"
          /\ lastBuild.faults[j] = "none"
          /\ HasMeshOf(lastBuild, j)

\* C10: whenever handleCalculate reads an empty soil layer list, it shows an error
\* in place of a result calculated with the default conductivity 1.5.
EmptySoilIsSignalled ==
    ( /\ submitted.outcome # "none"
      /\ getSoilLayers(submitted.soilRows) = << >> )
        => Rejected

\* The Q that sourceCalcs holds for the source with the given id (no Q: Undefined).
SolvedQ(sourceCalcs, id) ==
    LET ById(c) == c.pipeId = id
        i == FindIdx(sourceCalcs, ById)
    IN  IF i > 0 THEN sourceCalcs[i].Q ELSE Undefined

\* The tempRise of an interaction is the one its source's Q in sourceCalcs gives.
InteractionUsesSolvedQ(ic, sourceCalcs) ==
    /\ SolvedQ(sourceCalcs, ic.sourceId) # Undefined
    /\ ic.tempRise = TempRise(SolvedQ(sourceCalcs, ic.sourceId), ic.k_eff_path,
                              ic.d_real, ic.d_image)

\* Every source of a scene carries the Q that sourceCalcs holds for it.
SceneUsesSolvedQ(sceneData, sourceCalcs) ==
    \A i \in 1..Len(sceneData.pipes) :
       sceneData.pipes[i].Q = IF sceneData.pipes[i].isSource
                              THEN SolvedQ(sourceCalcs, sceneData.pipes[i].id)
                              ELSE Undefined

\* In a running calculateTemperatures no rise exists before every source has its
\* Q, and every rise computed so far used the Q of its source.
SolverIsTwoPhase ==
    solver # Null =>
       /\ (Len(solver.interactionCalcs) > 0 \/ Len(solver.affectedPipeCalcs) > 0) =>
             /\ Len(solver.sourceCalcs) = Len(solver.heatSources)
             /\ \A i \in 1..Len(solver.heatSources) :
                   solver.sourceCalcs[i].pipeId = solver.heatSources[i].id
       /\ \A i \in 1..Len(solver.interactionCalcs) :
             InteractionUsesSolvedQ(solver.interactionCalcs[i], solver.sourceCalcs)
       /\ \A a \in 1..Len(solver.affectedPipeCalcs) :
             \A i \in 1..Len(solver.affectedPipeCalcs[a].interactions) :
                InteractionUsesSolvedQ(solver.affectedPipeCalcs[a].interactions[i],
                                       solver.sourceCalcs)

\* A CalculationData holds the Q of every heat source, and its interactions and
\* its scene use those Q.
DataIsFromCompletedPass(data) ==
    /\ Len(data.detailedCalculations.sources) = Len(HeatSourcesOf(data))
    /\ \A a \in 1..Len(data.detailedCalculations.affectedPipes) :
          \A i \in 1..Len(data.detailedCalculations.affectedPipes[a].interactions) :
             InteractionUsesSolvedQ(data.detailedCalculations.affectedPipes[a].interactions[i],
                                    data.detailedCalculations.sources)
    /\ SceneUsesSolvedQ(data.sceneData, data.detailedCalculations.sources)

\* C11: within calculateTemperatures every heat source has its Q before the first
\* temperature-rise term of an affected pipe is computed and every term uses the
\* Q of its source from that pass; every point evaluation made afterwards reads
\* the scene of a completed pass, whose sources carry the Q of that pass.
TwoPhaseOrdering ==
    /\ [](SolverIsTwoPhase)
    /\ [](currentCalculationData # Null => DataIsFromCompletedPass(currentCalculationData))
    /\ [][ probe' # probe =>
              /\ solver = Null
              /\ currentCalculationData # Null
              /\ probe'.scene = currentCalculationData.sceneData ]_vars

\* A second calculation, of two sources and an affected pipe, has computed a rise
\* while the tooltip's last query is of the scene of the first calculation.
RiseAfterBothFluxes ==
    /\ solver # Null
    /\ Len(solver.heatSources) >= 2
    /\ Len(solver.interactionCalcs) >= 1
    /\ probe # Null
    /\ currentCalculationData # Null
    /\ probe.scene = currentCalculationData.sceneData

\* C12: the results (contents and order), the detailedCalculations and the
\* sceneData of currentCalculationData are those calculateTemperatures returned
\* for its inputs: no operation after the call has changed them.
ResultDataIsImmutable ==
    currentCalculationData # Null =>
        LET returned == calculateTemperatures(currentCalculationData.inputs.pipes,
                                              currentCalculationData.inputs.soilLayers,
                                              currentCalculationData.inputs.T_soil)
        IN  /\ currentCalculationData.results = returned.results
            /\ currentCalculationData.detailedCalculations = returned.detailedCalculations
            /\ currentCalculationData.sceneData = returned.sceneData

\* A finite number within tol units of centre (both in units of 1 / SCALE).
Near(a, centre, tol) == a.k = "fin" /\ Abs(a.v - centre) <= tol

\* calculateTemperatures was called on the fixture: FixtureSource alone in one
\* soil layer of k = 1.5 W/m-K, soil temperature 15 degC.
FixtureCall ==
    /\ callInput # Null
    /\ callInput.pipes = WithIds(<< FixtureSource >>)
    /\ callInput.soilLayers = SoilStack(<< CallLayerSeq[1] >>)
    /\ callInput.T_soil_C = Num(15)
    /\ lastCall # Null
    /\ lastCall.fn = "calculateTemperatures"

\* C13 as stated: for the fixture R_soil is about 0.381 K-m/W (within 0.005) and
\* Q about 485 W/m (within 5).
FixtureGivesClaimedValues ==
    FixtureCall =>
        /\ Near(lastCall.result.detailedCalculations.sources[1].R_soil, 3810, 50)
        /\ Near(lastCall.result.detailedCalculations.sources[1].Q, 4850000, 50000)

\* C13: for the fixture calculateTemperatures yields
\* R_soil = ln(2 * 1.5 / 0.05) / (2 pi 1.5), about 0.434 K-m/W (within 0.001), and
\* Q = (200 - 15) / R_soil, about 426 W/m (within 1).
FixtureGivesLogOfSixty ==
    FixtureCall =>
        /\ Near(lastCall.result.detailedCalculations.sources[1].R_soil, 4344, 10)
        /\ Near(lastCall.result.detailedCalculations.sources[1].Q, 4260000, 10000)

\* The call on the fixture has returned one source calculation with a heat flux.
FixtureCalculated ==
    /\ FixtureCall
    /\ Len(lastCall.result.detailedCalculations.sources) = 1
    /\ FGt(lastCall.result.detailedCalculations.sources[1].Q, Zero)

\* The last direct call was calculateTemperatures.
CalculateTemperaturesCalled == lastCall # Null /\ lastCall.fn = "calculateTemperatures"

\* The resistances of sourceCalc are 0 for the layers of pipe whose conductivity
\* is not positive or whose inner radius is not positive.
AbsentLayersHaveNoResistance(pipe, sourceCalc) ==
    LET r_pipe_outer == FDiv(pipe.od, Num(2))
        r_pipe_inner == FSub(r_pipe_outer, pipe.thickness)
        r_ins_outer  == FAdd(r_pipe_outer, pipe.ins_thickness)
    IN  /\ (~FGt(pipe.k_pipe, Zero) \/ ~FGt(r_pipe_inner, Zero)) => sourceCalc.R_pipe = Zero
        /\ (~FGt(pipe.k_ins, Zero) \/ ~FGt(r_pipe_outer, Zero)) => sourceCalc.R_ins = Zero
        /\ (~FGt(pipe.k_bedding, Zero) \/ ~FGt(r_ins_outer, Zero)) => sourceCalc.R_bed = Zero

\* C14: R_pipe, R_ins and R_bed of every source calculateTemperatures returns are
\* 0 whenever the layer's conductivity is zero or its inner radius is not
\* positive (so 0, not Infinity or NaN, for a pipe with od = 0).
LayerResistancesAreGuarded ==
    CalculateTemperaturesCalled =>
        \A i \in 1..Len(lastCall.result.detailedCalculations.sources) :
            AbsentLayersHaveNoResistance(HeatSourcesOf(lastCall.result)[i],
                                         lastCall.result.detailedCalculations.sources[i])

\* The last direct call was getEffectiveKForPath on two points at the same place.
CoincidentPathCalled ==
    /\ lastCall # Null
    /\ lastCall.fn = "getEffectiveKForPath"
    /\ lastCall.p1 = lastCall.p2

\* C15: getEffectiveKForPath on two points closer than 1e-6 returns the soil
\* conductivity at the depth of those points, the value getSoilKAtPoint gives
\* for that depth, whatever the depth and the layer stack.
CoincidentPathGivesLocalK ==
    CoincidentPathCalled =>
        lastCall.result = getSoilKAtPoint(lastCall.p1.z, callInput.soilLayers)

\* The last direct call was getSoilKAtPoint.
SoilKAtPointCalled == lastCall # Null /\ lastCall.fn = "getSoilKAtPoint"

\* The layers whose half-open range [depth_top, depth_bottom) contains the depth z.
LayersContaining(z, layers) ==
    { i \in 1..Len(layers) : layers[i].depth_top.v <= z.v /\ z.v < layers[i].depth_bottom.v }

\* C16: getSoilKAtPoint returns the conductivity of the first layer whose range
\* [depth_top, depth_bottom) contains z; the last layer's conductivity for z at
\* or beyond the last layer's depth_bottom; 1.5 when there are no layers.
SoilKAtPointIsFirstContaining ==
    SoilKAtPointCalled =>
        /\ LayersContaining(lastCall.z, callInput.soilLayers) # {} =>
              \E i \in LayersContaining(lastCall.z, callInput.soilLayers) :
                 /\ \A j \in LayersContaining(lastCall.z, callInput.soilLayers) : i <= j
                 /\ lastCall.result = callInput.soilLayers[i].k
        /\ ( /\ Len(callInput.soilLayers) > 0
             /\ lastCall.z.v >= callInput.soilLayers[Len(callInput.soilLayers)].depth_bottom.v )
              => lastCall.result = callInput.soilLayers[Len(callInput.soilLayers)].k
        /\ Len(callInput.soilLayers) = 0 => lastCall.result = Fin(15000)

\* getSoilKAtPoint was called with the depth of the boundary between two layers
\* of different conductivity.
BoundaryDepthQueried ==
    /\ SoilKAtPointCalled
    /\ Len(callInput.soilLayers) = 2
    /\ lastCall.z = callInput.soilLayers[1].depth_bottom
    /\ callInput.soilLayers[1].k # callInput.soilLayers[2].k

\* The pipe of the call's input with the given id.
CallPipe(id) == callInput.pipes[CHOOSE i \in 1..Len(callInput.pipes) : callInput.pipes[i].id = id]

\* The coordinate of a pipe across its own direction: x when parallel, else y.
HorizontalOf(pipe) == IF pipe.orientation = "parallel" THEN pipe.x ELSE pipe.y

\* od / 2 + ins_thickness + bed_thickness of a pipe.
OuterRadiusOf(pipe) == FAdd(FAdd(FDiv(pipe.od, Num(2)), pipe.ins_thickness), pipe.bed_thickness)

\* The distances and conductivity the loop computes for source s and affected
\* pipe a, before the clamp of line 763, are those of interaction ic.
GeometryFollowsOrientation(s, a, layers, ic) ==
    IF s.orientation = a.orientation
    THEN /\ ic.d_real = FMax(FHypot(FSub(HorizontalOf(s), HorizontalOf(a)), FSub(s.z, a.z)),
                             OuterRadiusOf(s))
         /\ ic.d_image = FHypot(FSub(HorizontalOf(s), HorizontalOf(a)), FAdd(s.z, a.z))
         /\ ic.k_eff_path = getEffectiveKForPath([x |-> HorizontalOf(s), z |-> s.z],
                                                 [x |-> HorizontalOf(a), z |-> a.z], layers)
    ELSE /\ ic.d_real = FMax(FAbs(FSub(s.z, a.z)), OuterRadiusOf(s))
         /\ ic.d_image = FAdd(s.z, a.z)
         /\ ic.k_eff_path = getSoilKAtPoint(a.z, layers)

\* C17: in the affected-pipe loop, pipes of the same orientation get the 2D
\* distances over (horizontal offset, z_s - z_a) and (horizontal offset, z_s + z_a)
\* and the path conductivity between the centrelines; pipes of different
\* orientations get d_real = |z_s - z_a|, d_image = z_s + z_a and the point
\* conductivity at the affected pipe's depth (d_real as recorded after the clamp
\* to the source's outer radius).
InteractionGeometryByOrientation ==
    CalculateTemperaturesCalled =>
        \A i \in 1..Len(lastCall.result.detailedCalculations.affectedPipes) :
            \A j \in 1..Len(lastCall.result.detailedCalculations.affectedPipes[i].interactions) :
                GeometryFollowsOrientation(
                    CallPipe(lastCall.result.detailedCalculations.affectedPipes[i].interactions[j].sourceId),
                    CallPipe(lastCall.result.detailedCalculations.affectedPipes[i].pipeId),
                    callInput.soilLayers,
                    lastCall.result.detailedCalculations.affectedPipes[i].interactions[j])

\* calculateTemperatures met a source and an affected pipe of different
\* orientations, horizontally apart, the clamp not acting, with a temperature rise.
MixedOrientationPairCalculated ==
    /\ CalculateTemperaturesCalled
    /\ \E i \in 1..Len(lastCall.result.detailedCalculations.affectedPipes) :
         \E j \in 1..Len(lastCall.result.detailedCalculations.affectedPipes[i].interactions) :
            LET ap == lastCall.result.detailedCalculations.affectedPipes[i]
                s  == CallPipe(ap.interactions[j].sourceId)
                a  == CallPipe(ap.pipeId)
            IN  /\ s.orientation # a.orientation
                /\ HorizontalOf(s) # HorizontalOf(a)
                /\ s.x # a.x
                /\ FGt(ap.interactions[j].d_real, OuterRadiusOf(s))
                /\ FGt(ap.interactions[j].tempRise, Zero)

\* The last direct call was calculateTemperatureAtPoint.
TemperatureAtPointCalled == lastCall # Null /\ lastCall.fn = "calculateTemperatureAtPoint"

\* A computed term t (d_real, d_image, k_eff_path, tempRise) of a source of outer
\* radius r_outer: d_real is at least r_outer, and tempRise is 0 when the
\* conductivity is not positive or the image is no farther than d_real.
ClampedAndGuarded(r_outer, t) ==
    /\ FGe(t.d_real, r_outer)
    /\ (FLe(t.k_eff_path, Zero) \/ FLe(t.d_image, t.d_real)) => t.tempRise = Zero

\* C18: every InteractionCalculation of calculateTemperatures and every
\* per-source term of calculateTemperatureAtPoint has d_real at least the
\* source's od/2 + ins_thickness + bed_thickness, and a tempRise of 0 (for a
\* point: a term that is not added) whenever k_eff_path <= 0 or d_image <= d_real.
DistancesClampedAndRisesGuarded ==
    /\ CalculateTemperaturesCalled =>
          \A i \in 1..Len(lastCall.result.detailedCalculations.affectedPipes) :
             \A j \in 1..Len(lastCall.result.detailedCalculations.affectedPipes[i].interactions) :
                ClampedAndGuarded(
                    OuterRadiusOf(CallPipe(lastCall.result.detailedCalculations.affectedPipes[i].interactions[j].sourceId)),
                    lastCall.result.detailedCalculations.affectedPipes[i].interactions[j])
    /\ TemperatureAtPointCalled =>
          \A i \in DOMAIN lastCall.eval.termCalcs :
             /\ ClampedAndGuarded(OuterRadiusOf(CallPipe(lastCall.scene.pipes[i].id)),
                                  lastCall.eval.termCalcs[i])
             /\ ( \/ FLe(lastCall.eval.termCalcs[i].k_eff_path, Zero)
                  \/ FLe(lastCall.eval.termCalcs[i].d_image, lastCall.eval.termCalcs[i].d_real) )
                   => i \notin lastCall.eval.terms

\* calculateTemperatures met, in one call, an affected pipe closer to a source
\* with a heat flux than the source's outer radius (the clamp acts), and an
\* interaction whose conductivity is not positive or whose image is no farther
\* than d_real.
ClampAndGuardBothActed ==
    /\ CalculateTemperaturesCalled
    /\ \E i \in 1..Len(lastCall.result.detailedCalculations.affectedPipes) :
         \E j \in 1..Len(lastCall.result.detailedCalculations.affectedPipes[i].interactions) :
            LET ap == lastCall.result.detailedCalculations.affectedPipes[i]
                s  == CallPipe(ap.interactions[j].sourceId)
                a  == CallPipe(ap.pipeId)
            IN  /\ s.orientation = a.orientation
                /\ FLt(FHypot(FSub(HorizontalOf(s), HorizontalOf(a)), FSub(s.z, a.z)),
                       OuterRadiusOf(s))
                /\ ap.interactions[j].d_real = OuterRadiusOf(s)
                /\ FGt(ap.interactions[j].tempRise, Zero)
    /\ \E i \in 1..Len(lastCall.result.detailedCalculations.affectedPipes) :
         \E j \in 1..Len(lastCall.result.detailedCalculations.affectedPipes[i].interactions) :
            LET ic == lastCall.result.detailedCalculations.affectedPipes[i].interactions[j]
                sc == lastCall.result.detailedCalculations.sources[
                          CHOOSE n \in 1..Len(lastCall.result.detailedCalculations.sources) :
                             lastCall.result.detailedCalculations.sources[n].pipeId = ic.sourceId]
            IN  /\ FGt(sc.Q, Zero)
                /\ FLe(ic.k_eff_path, Zero)
                /\ FGt(ic.d_image, ic.d_real)
                /\ ic.tempRise = Zero

\* T_soil + Q * ln(2 z / r_bed) / (2 pi k_eff) for a pipe of the scene, k_eff
\* being the effective soil conductivity at the pipe.
ClaimedSurfaceTemperature(pipe, sceneData) ==
    FAdd(sceneData.T_soil,
         FDiv(FMul(pipe.Q, FLog(FDiv(FMul(Num(2), pipe.z), pipe.r_bed))),
              TwoPiK(EffectiveSoilK(pipe.z, pipe.r_bed, sceneData.layers))))

\* T_soil + Q * R_soil with the Q and R_soil the solver computed for the pipe.
SolverSurfaceTemperature(pipe, sceneData, sources) ==
    LET sc == sources[CHOOSE n \in 1..Len(sources) : sources[n].pipeId = pipe.id]
    IN  FAdd(sceneData.T_soil, FMul(sc.Q, sc.R_soil))

\* Pipe i is the only pipe of the scene whose bedding radius reaches the query point.
OnlyPipeAround(i) ==
    /\ FLe(DistToCenter(lastCall.scene.pipes[i], lastCall.x, lastCall.z),
           lastCall.scene.pipes[i].r_bed)
    /\ \A j \in 1..Len(lastCall.scene.pipes) :
          j # i => FGt(DistToCenter(lastCall.scene.pipes[j], lastCall.x, lastCall.z),
                       lastCall.scene.pipes[j].r_bed)

\* The query point is in the insulation or bedding of pipe i, a heat source in
\* soil of positive conductivity, and of no other pipe.
InAnnulusOfSource(i) ==
    /\ OnlyPipeAround(i)
    /\ lastCall.scene.pipes[i].isSource
    /\ FGt(DistToCenter(lastCall.scene.pipes[i], lastCall.x, lastCall.z),
           lastCall.scene.pipes[i].r_pipe)
    /\ FGt(EffectiveSoilK(lastCall.scene.pipes[i].z, lastCall.scene.pipes[i].r_bed,
                          lastCall.scene.layers), Zero)

\* C19: calculateTemperatureAtPoint returns a pipe's temperature within its bare
\* radius, and within the insulation or bedding of a heat source, whatever its
\* Q (0 included), the surface temperature T_soil + Q ln(2z / r_bed) / (2 pi k_eff)
\* = T_soil + Q R_soil, without running the superposition (values compared
\* within 0.1 degC, the resolution of Q R_soil in fixed point).
InsidePipeGivesPipeOrSurfaceTemperature ==
    TemperatureAtPointCalled =>
        \A i \in 1..Len(lastCall.scene.pipes) :
            /\ ( /\ OnlyPipeAround(i)
                 /\ FLe(DistToCenter(lastCall.scene.pipes[i], lastCall.x, lastCall.z),
                        lastCall.scene.pipes[i].r_pipe) )
                  => lastCall.value = lastCall.scene.pipes[i].temp
            /\ InAnnulusOfSource(i) =>
                  /\ lastCall.eval.branch # "superposition"
                  /\ IsFinite(ClaimedSurfaceTemperature(lastCall.scene.pipes[i], lastCall.scene))
                  /\ Near(lastCall.value,
                          ClaimedSurfaceTemperature(lastCall.scene.pipes[i], lastCall.scene).v, 1000)
                  /\ Near(lastCall.value,
                          SolverSurfaceTemperature(lastCall.scene.pipes[i], lastCall.scene,
                                                   lastCall.sources).v, 1000)

\* The last call of marchingCubes was run.
RunCalled == mcOutput # Null /\ mcOutput.call = "run"

\* row is n complete edge-index triples (n = 0..5) followed only by -1, in at
\* most 16 entries.
TriplesThenTerminators(row) ==
    /\ Len(row) <= 16
    /\ \E n \in 0..5 :
          /\ 3 * n <= Len(row)
          /\ \A i \in 1..Len(row) : IF i <= 3 * n THEN row[i] \in 0..11 ELSE row[i] = -1

\* The number of vertices of the triangles row lists: its entries other than -1.
ListedVertices(row) == Cardinality({ i \in 1..Len(row) : row[i] # -1 })

\* Every edge row lists has a vertex in vertlist.
ListedEdgesHaveVertices(row, vertlist) ==
    \A i \in 1..Len(row) : row[i] # -1 => VertAt(vertlist, row[i]) # Null

\* C20: the triangle table has exactly 256 rows, each of at most 16 entries:
\* complete edge-index triples (0 to 5 triangles) followed only by -1; run
\* emits every triangle of the row of each cube it visits.
TriangleTableIsComplete ==
    RunCalled =>
        /\ Len(triTable) = 256
        /\ \A n \in 1..Len(mcOutput.cubes) :
              /\ TriplesThenTerminators(triTable[mcOutput.cubes[n].cubeindex + 1])
              /\ ListedEdgesHaveVertices(triTable[mcOutput.cubes[n].cubeindex + 1],
                                         mcOutput.cubes[n].vertlist)
                    => Len(mcOutput.cubes[n].vertices)
                         = ListedVertices(triTable[mcOutput.cubes[n].cubeindex + 1])

\* The sample at corner i = 0..7 of the n-th cube of the last run.
CornerValue(n, i) ==
    LET p == CubeCorners(mcOutput.cubes[n].at[1], mcOutput.cubes[n].at[2],
                         mcOutput.cubes[n].at[3])[i + 1]
    IN  getVal(mcInput.data, mcInput.dims, p[1], p[2], p[3])

\* C21: in run, bit i of the cube index is set exactly when corner i's value is
\* strictly below the isolevel, and a cube of index 0 or 255 emits no vertices.
CubeIndexMarksCornersBelow ==
    RunCalled =>
        \A n \in 1..Len(mcOutput.cubes) :
            /\ \A i \in 0..7 :
                  BitSet(mcOutput.cubes[n].cubeindex, i)
                     <=> FLt(CornerValue(n, i), mcInput.isolevel)
            /\ mcOutput.cubes[n].cubeindex \in {0, 255} => mcOutput.cubes[n].vertices = << >>

\* A run over a cube with a corner exactly at the isolevel and a corner below it.
CornerAtIsolevelVisited ==
    /\ RunCalled
    /\ \E n \in 1..Len(mcOutput.cubes) :
          /\ \E i \in 0..7 : CornerValue(n, i) = mcInput.isolevel
          /\ \E i \in 0..7 : FLt(CornerValue(n, i), mcInput.isolevel)

\* The grid sampler has started; it has finished.
SamplerStarted == lastCall # Null /\ lastCall.fn = "sampleGrid"

SamplerFinished == SamplerStarted /\ lastCall.i >= callInput.dims[1]

\* C22: the grid sampler of buildScene writes each of the dimX * dimY * dimZ
\* cells exactly once: no write falls outside the array, no cell is written
\* twice, and at the end getVal of marchingCubes.run reads at (x, y, z) the
\* sample taken at node (x, y, z).
SamplerWritesEachCellOnce ==
    SamplerStarted =>
        /\ lastCall.outside = 0
        /\ \A n \in DOMAIN lastCall.cellOf : Len(lastCall.cellOf[n]) <= 1
        /\ SamplerFinished =>
              /\ \A n \in DOMAIN lastCall.cellOf : Len(lastCall.cellOf[n]) = 1
              /\ \A x \in 0..(callInput.dims[1] - 1), y \in 0..(callInput.dims[2] - 1),
                    z \in 0..(callInput.dims[3] - 1) :
                    /\ getVal(lastCall.cellOf, callInput.dims, x, y, z) = << <<x, y, z>> >>
                    /\ getVal(lastCall.scalarField, callInput.dims, x, y, z)
                          = NodeTemp(callInput.field, x, y, z)

\* The sampler finished on a field that is not uniform.
SamplerFinishedOnVaryingField ==
    /\ SamplerFinished
    /\ \E n, m \in DOMAIN lastCall.scalarField : lastCall.scalarField[n] # lastCall.scalarField[m]

\* The last direct call was getSoilLayers.
GetSoilLayersCalled == lastCall # Null /\ lastCall.fn = "getSoilLayers"

\* C23: the list getSoilLayers builds is contiguous and ordered whatever the
\* rows: the first layer has depth_top 0, every layer has a thickness > 0 and
\* depth_bottom = depth_top + thickness, and each layer's depth_bottom is the
\* next layer's depth_top.
SoilLayersAreContiguous ==
    GetSoilLayersCalled =>
        /\ Len(lastCall.result) > 0 => lastCall.result[1].depth_top = Zero
        /\ \A i \in 1..Len(lastCall.result) :
              /\ FGt(lastCall.result[i].thickness, Zero)
              /\ lastCall.result[i].depth_bottom
                    = FAdd(lastCall.result[i].depth_top, lastCall.result[i].thickness)
              /\ i < Len(lastCall.result) =>
                    lastCall.result[i].depth_bottom = lastCall.result[i + 1].depth_top

\* getSoilLayers was called on rows of which one, between two rows that became
\* layers, has a negative thickness.
RowSkippedBetweenLayers ==
    /\ GetSoilLayersCalled
    /\ Len(soilRows) = 3
    /\ FGt(soilRows[1].thickness, Zero)
    /\ FLt(soilRows[2].thickness, Zero)
    /\ FGt(soilRows[3].thickness, Zero)
    /\ Len(lastCall.result) = 2

\* The entries of a triangle-table row that the loop of run reads as triangles:
\* those before the first -1.
EmittedPart(row) ==
    { i \in 1..Len(row) : \A j \in 1..i : row[j] # -1 }

\* C24: every cube run visits whose corners are not all on the same side of the
\* isolevel (cube index other than 0 and 255) contributes at least one triangle:
\* every edge named in the emitted part of its triangle-table row is marked as
\* crossed in edgeTable for the same index, so the null-vertex test drops nothing.
MixedCubesContributeTriangles ==
    RunCalled =>
        \A n \in 1..Len(mcOutput.cubes) :
            mcOutput.cubes[n].cubeindex \notin {0, 255} =>
                /\ Len(mcOutput.cubes[n].vertices) >= 3
                /\ \A i \in EmittedPart(triTable[mcOutput.cubes[n].cubeindex + 1]) :
                      /\ triTable[mcOutput.cubes[n].cubeindex + 1][i] \in 0..11
                      /\ BitSet(edgeTable[mcOutput.cubes[n].cubeindex + 1],
                                triTable[mcOutput.cubes[n].cubeindex + 1][i])

\* C25: run terminates: for the cube index of every cube it visits, the
\* triangle loop (i = 0, 3, 6, ... while triTable[cubeindex][i] !== -1) ends at
\* a -1 at a multiple-of-3 position inside the row, without reading past the
\* row's end.
TriangleLoopEndsInsideRow ==
    RunCalled =>
        \A n \in 1..Len(mcOutput.cubes) :
            /\ mcOutput.cubes[n].cubeindex \in 0..255
            /\ mcOutput.cubes[n].cubeindex + 1 \in DOMAIN triTable
            /\ mcOutput.cubes[n].looped =>
                  /\ mcOutput.cubes[n].loopEnd \in 0..(Len(triTable[mcOutput.cubes[n].cubeindex + 1]) - 1)
                  /\ mcOutput.cubes[n].loopEnd % 3 = 0
                  /\ triTable[mcOutput.cubes[n].cubeindex + 1][mcOutput.cubes[n].loopEnd + 1] = -1

\* A run visited a cube whose triangle loop made a pass and ended at index 3,
\* in a row that has edge indices after that -1.
TriangleLoopRanAndEnded ==
    /\ RunCalled
    /\ \E n \in 1..Len(mcOutput.cubes) :
          /\ mcOutput.cubes[n].looped
          /\ mcOutput.cubes[n].loopEnd = 3
          /\ triTable[mcOutput.cubes[n].cubeindex + 1][5] # -1

\* Every sample of the lattice of the last call is finite.
SamplesAreFinite == \A n \in DOMAIN mcInput.data : IsFinite(mcInput.data[n])

\* Number a lies between the integers lo and hi (in either order).
Between(a, lo, hi) ==
    /\ IsFinite(a)
    /\ a.v >= (IF lo < hi THEN lo ELSE hi) * SCALE
    /\ a.v <= (IF lo < hi THEN hi ELSE lo) * SCALE

\* Vertex w lies on the segment between lattice positions p1 and p2.
OnEdge(w, p1, p2) ==
    /\ Between(w.x, p1[1], p2[1])
    /\ Between(w.y, p1[2], p2[2])
    /\ Between(w.z, p1[3], p2[3])

\* Every vertex computed for the n-th cube lies on its edge, and every vertex
\* the cube pushed is one of them.
CubeVerticesOnEdges(n) ==
    LET cube == mcOutput.cubes[n]
        p    == CubeCorners(cube.at[1], cube.at[2], cube.at[3])
    IN  /\ \A e \in 0..11 :
              cube.vertlist[e] # Null =>
                 OnEdge(cube.vertlist[e], p[EdgeCorners[e + 1][1] + 1],
                        p[EdgeCorners[e + 1][2] + 1])
        /\ \A m \in 1..Len(cube.vertices) :
              \E e \in 0..11 : cube.vertices[m] = cube.vertlist[e]

\* C26: the vertex list run returns has a length that is a multiple of 3; for
\* finite samples every vertex lies on the cube edge it was interpolated for,
\* hence inside the lattice box; and run reads no lattice node outside the array.
VerticesComeInTriplesOnEdges ==
    RunCalled =>
        /\ Len(mcOutput.vertices) % 3 = 0
        /\ \A n \in 1..Len(mcOutput.cubes) :
              /\ Len(mcOutput.cubes[n].vertices) % 3 = 0
              /\ \A d \in 1..3 :
                    mcOutput.cubes[n].at[d] >= 0 /\ mcOutput.cubes[n].at[d] + 1 <= mcInput.dims[d] - 1
              /\ \A i \in 1..8 :
                    LET p == CubeCorners(mcOutput.cubes[n].at[1], mcOutput.cubes[n].at[2],
                                         mcOutput.cubes[n].at[3])[i]
                    IN  (p[1] + p[2] * mcInput.dims[1] + p[3] * mcInput.dims[1] * mcInput.dims[2])
                           \in DOMAIN mcInput.data
        /\ SamplesAreFinite =>
              /\ \A n \in 1..Len(mcOutput.cubes) : CubeVerticesOnEdges(n)
              /\ \A m \in 1..Len(mcOutput.vertices) :
                    /\ Between(mcOutput.vertices[m].x, 0, mcInput.dims[1] - 1)
                    /\ Between(mcOutput.vertices[m].y, 0, mcInput.dims[2] - 1)
                    /\ Between(mcOutput.vertices[m].z, 0, mcInput.dims[3] - 1)

\* A run over finite samples returned a triangle with a vertex strictly inside
\* an edge of the lattice.
TriangleWithInteriorVertexReturned ==
    /\ RunCalled
    /\ SamplesAreFinite
    /\ Len(mcOutput.vertices) >= 3
    /\ \E m \in 1..Len(mcOutput.vertices) :
          \/ mcOutput.vertices[m].x.v % SCALE # 0
          \/ mcOutput.vertices[m].y.v % SCALE # 0
          \/ mcOutput.vertices[m].z.v % SCALE # 0

OneAnimationLoopPerManager ==
    /\ animationFrames.ofManager <= 1
    /\ animationFrames.ofDestroyed = 0
    /\ animationFrames.lastFrame.ofDestroyed = 0

\* No two entries of the list share an id.
IsoIdsDistinct(list) == \A i, j \in 1..Len(list) : i # j => list[i].id # list[j].id

\* Every row has exactly one entry of the list with its id.
RowsHaveOneEntry(rows, list) ==
    \A r \in 1..Len(rows) :
        Cardinality({ i \in 1..Len(list) : list[i].id = rows[r].id }) = 1

\* C27: whatever rows were added, edited and removed and whatever scenario was
\* loaded, no two entries of isotherms share an id and every isotherm row has
\* exactly one entry; likewise for isoSurfaces and the isosurface rows.
IsoRowsMatchEntries ==
    /\ IsoIdsDistinct(isotherms)
    /\ RowsHaveOneEntry(isothermRows, isotherms)
    /\ IsoIdsDistinct(isoSurfaces)
    /\ RowsHaveOneEntry(isoSurfaceRows, isoSurfaces)

\* The entries of results a pipe id finds.
ResultsOfPipe(data, pipeId) ==
    { r \in 1..Len(data.results) : data.results[r].pipeId = pipeId }

\* C30: whatever rows were added and removed and whatever was loaded, the pipe
\* rows have pairwise distinct ids, and in the last calculation every pipe
\* found one entry of results, its own: a source's entry holds the source's
\* temperature, and the scene shows each pipe at the temperature of its entry.
PipeIdsFindTheirResults ==
    /\ \A i, j \in 1..Len(pipeRows) : i # j => pipeRows[i].id # pipeRows[j].id
    /\ currentCalculationData # Null =>
          \A i \in 1..Len(currentCalculationData.inputs.pipes) :
             LET p == currentCalculationData.inputs.pipes[i]
                 found == ResultsOfPipe(currentCalculationData, p.id)
             IN  /\ Cardinality(found) = 1
                 /\ \A r \in found :
                       /\ p.role = "heat_source" =>
                             currentCalculationData.results[r].finalTemp = p.temp
                       /\ currentCalculationData.sceneData.pipes[i].id = p.id
                       /\ currentCalculationData.sceneData.pipes[i].temp
                             = currentCalculationData.results[r].finalTemp

\* A saved form from which the first row was removed and to which a row was then
\* added, calculated with its two pipes.
PipeAddedAfterLoadAndRemoval ==
    /\ scenarioFile # Null
    /\ edits = 2
    /\ Len(pipeRows) = 2
    /\ pipeRows[1].id = 2
    /\ pipeRows[2].id = 3
    /\ submitted.outcome = "calculated"
    /\ submitted.pipeRows = pipeRows

=============================================================================
